---------------------------- MODULE Spec2Model ----------------------------
(***************************************************************************)
(* Model of the visual-servoing pipeline of raspi-control:                 *)
(*   view_pub.py            the frame source (ZeroMQ PUB, topic b"video")  *)
(*   tracker_pi.py          the publishing tracker core (SUB -> PUB)       *)
(*   track.py               the local tracking loop (drive() on stdout)    *)
(*   track_and_stream_pi.py the local tracking loop feeding ffmpeg         *)
(*   viewer_sub.py          the viewer of the tracker's result topics      *)
(*   video_only_sub.py      the viewer of the camera's frames              *)
(*                                                                         *)
(* Each program has its own specification (Spec, SpecCamera, SpecTrack,    *)
(* SpecStream), and so has each pair of a publisher and a consumer         *)
(* (SpecBus, SpecRemote), the tracker fed with malformed messages          *)
(* (SpecFault) and the control law on its own (SpecLaw); the variables of  *)
(* the programs a specification leaves out keep their initial values.      *)
(*                                                                         *)
(* Time is a global clock `now` counted in whole seconds.  Python floats   *)
(* are fixed-point integers in units of 1/FP; a float32 is a value on the  *)
(* coarser binary grid of F32_STEP/FP.  A byte string used as a topic is a *)
(* tuple of one-character strings, so that ZeroMQ's prefix match is        *)
(* computed byte by byte.  Python's None is the empty tuple and a present  *)
(* optional value v is <<v>>.                                              *)
(***************************************************************************)
EXTENDS Integers, Sequences, FiniteSets, TLC

VARIABLES
    now,          \* wall clock, seconds (time.time())
    \* ---- view_pub.py
    vp_seq,       \* seq
    vp_next_t,    \* next_t
    vp_sent,      \* the last message view_pub sent: <<>> or <<msg>>
    \* ---- the camera endpoint (tcp://...:5555): the tracker's SUB socket
    sub_tracker,  \* conflated receive slot of tracker_pi's SUB socket: <<>> or <<msg>>
    raw_seq,      \* seq of the other publisher bound to the camera endpoint
    \* ---- tracker_pi.py
    have_roi, mx_s, area_s, last_seen, seq_out,
    out,          \* the messages tracker_pi published in its last cycle, in order
    cyc,          \* what happened in the last cycle of tracker_pi (observation record)
    observed_at,  \* time of the last cycle with a valid box, <<>> before the first one
    \* ---- track.py
    track,        \* [have_roi, last_seen, mx_s, area_s], and the drive() calls of the last cycle
    \* ---- track_and_stream_pi.py
    stream,       \* [have_roi, last_seen, mx_s, area_s], and what the last cycle did
    \* ---- the result endpoint (tcp://...:5556) and the reference consumers
    tracker_pc,   \* tracker_pi.py: "running", or "crashed" once an exception ended main
    pub_pipe,     \* tracker_pi's PUB socket: the messages queued for the connected peer
    viewer,       \* viewer_sub.py: its arguments and its SUB socket
    vo,           \* video_only_sub.py: its arguments, its SUB socket, what it received
    \* ---- the control law applied to chosen inputs
    ctl,          \* [the inputs, the command computed from them]
    \* ---- the smoothing (EMA) applied to chosen boxes, in binary64 arithmetic
    ema,          \* [the smoothed values before the update, the observation, the result]
    \* ---- the command line of tracker_pi.py
    args,         \* [kind, roi, show]: what ap.parse_args() was given
    tracker_res,  \* the sockets tracker_pi.py holds open
    \* ---- the HTTP servers (led_api.py, tof_api.py, api_server.py)
    led,          \* the LED controller object of the server, its animation thread
    led_http,     \* the request being handled, the last request and its response
    tof,          \* the distance sensor object of the server
    tof_http,     \* the last request and its response
    \* ---- camera_stream.py (WebSocket frame source) and its client ws_test.py
    ws,           \* the event loop: its clock and the stream handler of each client
    frame,        \* a message built by camera_stream.py and what ws_test.py made of it
    \* ---- the LED controller under requests handled concurrently
    anim          \* stop_animation, animation_thread, the threads, each handler's position

vars == <<now, vp_seq, vp_next_t, vp_sent, sub_tracker, raw_seq,
          have_roi, mx_s, area_s, last_seen, seq_out, out, cyc, observed_at,
          track, stream, tracker_pc, pub_pipe, viewer, vo, ctl, ema, args, tracker_res,
          led, led_http, tof, tof_http, ws, frame, anim>>

\* the variables of the components that stand apart from the tracking pipeline
vars_api == <<led, led_http, tof, tof_http>>

vars_ws == <<ws, frame, anim>>

vars_rest == <<ema, args, tracker_res, vars_api, vars_ws>>

vars_view_pub == <<vp_seq, vp_next_t, vp_sent>>
vars_tracker  == <<have_roi, mx_s, area_s, last_seen, seq_out, out, cyc, observed_at,
                   tracker_pc>>
vars_subs     == <<pub_pipe, viewer, vo>>

\* everything but the HTTP servers
vars_pipeline_but_ws ==
    <<now, vars_view_pub, sub_tracker, raw_seq, vars_tracker, track, stream,
      vars_subs, ctl, ema, args, tracker_res>>

vars_pipeline == <<now, vars_view_pub, sub_tracker, raw_seq, vars_tracker, track, stream,
                   vars_subs, ctl, ema, args, tracker_res, vars_ws>>

-----------------------------------------------------------------------------
(* Bounds of the model *)

MaxTime   == 4     \* the clock stops at MaxTime seconds
MaxFrames == 3     \* frames a publisher sends
MaxReads  == 4     \* frames a local loop (track.py, track_and_stream_pi.py) reads
PubHwm    == 2     \* messages a PUB socket queues for one peer (SNDHWM, ZeroMQ's default is 1000)
MaxWsTime == 4     \* the clock of the WebSocket server stops at MaxWsTime seconds
MaxThreads == 3    \* animation threads created in one run

-----------------------------------------------------------------------------
(* Numbers *)

FP       == 64 * 25          \* fixed-point unit: the float 1.0
F32_STEP == FP \div 64       \* spacing of the float32 grid, in units of 1/FP

None == <<>>
Some(v) == <<v>>
Val(o) == o[1]

\* n/d rounded to the nearest integer (d > 0), as a float operation rounds its result
RoundDiv(n, d) == (2 * n + d) \div (2 * d)

\* a rational constant q = <<num, den>> times the fixed-point value v
MulQ(q, v) == RoundDiv(q[1] * v, q[2])

\* the fixed-point value of the rational <<num, den>>
Q(q) == RoundDiv(q[1] * FP, q[2])

Max(a, b) == IF a >= b THEN a ELSE b
Min(a, b) == IF a <= b THEN a ELSE b

\* np.array([...], dtype=np.float32): each value rounded to the float32 grid
Float32(v) == RoundDiv(v, F32_STEP) * F32_STEP

-----------------------------------------------------------------------------
(* Constants of tracker_pi.py / track.py / track_and_stream_pi.py *)

EMA_ALPHA     == <<3, 10>>       \* 0.3
Kp_turn       == <<7, 10>>       \* 0.7
TARGET_AREA   == 12000
MIN_AREA      == 60
FWD_MIN       == <<15, 100>>     \* 0.15
FWD_MAX       == <<7, 10>>       \* 0.7
SEARCH_SPIN   == <<1, 4>>        \* 0.25
STOP_TIMEOUT  == 3               \* 3.0 seconds

FRAME_W == 320
FRAME_H == 240

clamp(x, lo, hi) == IF x < lo THEN lo ELSE IF x > hi THEN hi ELSE x

-----------------------------------------------------------------------------
(* The bus: topics and ZeroMQ's subscription filter *)

\* the bytes of the topics used in the repository
Bytes(topic) ==
    CASE topic = "video"        -> <<"v","i","d","e","o">>
      [] topic = "video.raw"    -> <<"v","i","d","e","o",".","r","a","w">>
      [] topic = "video.annot"  -> <<"v","i","d","e","o",".","a","n","n","o","t">>
      [] topic = "tensor.state" -> <<"t","e","n","s","o","r",".","s","t","a","t","e">>
      [] topic = "drive.cmd"    -> <<"d","r","i","v","e",".","c","m","d">>

TOPIC_VIDEO_ANNOT  == "video.annot"      \* tracker_pi.py line 108
TOPIC_TENSOR_STATE == "tensor.state"     \* tracker_pi.py line 114
TOPIC_DRIVE_CMD    == "drive.cmd"        \* tracker_pi.py line 118

\* the topic view_pub.py sends its frames on
ViewPubTopic == "video"

\* the filter tracker_pi.py sets with zmq.SUBSCRIBE
TrackerSubscribe == "video.raw"

\* a SUB socket accepts a message iff its first part starts with the subscribed bytes
IsPrefix(p, s) == Len(p) <= Len(s) /\ SubSeq(s, 1, Len(p)) = p
Accepts(subscription, topic) == IsPrefix(Bytes(subscription), Bytes(topic))

\* a multipart message is the tuple of its parts
Topic(m)   == m[1]
Header(m)  == m[2]
Payload(m) == m[3]

\* tracker_pi's SUB socket has CONFLATE=1: an accepted message replaces the waiting one
Conflate(slot, m) == <<m>>

\* ZMQ_CONFLATE "does not support multi-part messages, in particular, only one
\* part of it is kept in the socket internal queue": the parts of a message
\* overwrite each other in the socket's single slot while the receiver reads it.
\* What recv_multipart() can find after the parts of m arrived:
\*   the whole message (each part read before the next one overwrote it),
\*   the topic part followed by the part kept last,
\*   nothing (the part kept does not start with the subscribed bytes).
Fragment(m) == <<m[1], m[Len(m)]>>
ConflateOutcomes(slot, m) == { Conflate(slot, m), <<Fragment(m)>>, <<>> }

\* the tracker's receive slot after message m was published on the camera endpoint
SubTrackerOutcomes(slot, m) ==
    IF Accepts(TrackerSubscribe, Topic(m)) THEN ConflateOutcomes(slot, m) ELSE {slot}

\* A SUB socket with options [subscribe, conflate, hwm] holding the undelivered
\* messages `queue`, after message m was sent to it.  Without CONFLATE the
\* messages wait in order, in the pipes of both ends, up to hwm of them.
SubOutcomes(sock, m) ==
    IF ~Accepts(sock.subscribe, Topic(m)) THEN {sock.queue}
    ELSE IF sock.conflate THEN ConflateOutcomes(sock.queue, m)
    ELSE {IF Len(sock.queue) < sock.hwm THEN Append(sock.queue, m) ELSE sock.queue}

\* video_only_sub.py's SUB socket (lines 12-17): RCVHWM 1, CONFLATE only with
\* --conflate; its peer is view_pub.py's PUB socket with SNDHWM 1
VP_SNDHWM == 1
VO_RCVHWM == 1
VoSubscribe == "video"
VoSocket(v) ==
    [subscribe |-> VoSubscribe, conflate |-> v.conflate, hwm |-> VP_SNDHWM + VO_RCVHWM,
     queue |-> v.queue]
\* the undelivered messages of video_only_sub after m was published on the camera endpoint
VoOutcomes(v, m) == IF v.pc = "running" THEN SubOutcomes(VoSocket(v), m) ELSE {v.queue}

\* json.loads accepts the header bytes
IsJson(h) == "invalid_json" \notin DOMAIN h
NotJson == [invalid_json |-> TRUE]

-----------------------------------------------------------------------------
(* view_pub.py *)

VP_FPS == 1                       \* --fps 1: one frame per clock unit
VpInterval == 1 \div Max(VP_FPS, 1)

ViewPubHeader(seq, ts) == [seq |-> seq, ts_ns |-> ts, w |-> FRAME_W, h |-> FRAME_H, fmt |-> "jpg"]

\* seq after an iteration that passed cap.read(): line 54 is reached only after
\* the send, `continue` (line 43) skips it
SeqAfterCycleMut(seq, sent) == seq + 1
SeqAfterCycle(seq, sent) == IF sent THEN seq + 1 ELSE seq

\* one iteration of the while loop of view_pub.main
ViewPubCycle ==
    /\ vp_seq < MaxFrames
    /\ \E okRead \in BOOLEAN, okEnc \in BOOLEAN :
        IF ~okRead
        THEN \* time.sleep(0.01); continue
             UNCHANGED vars
        ELSE LET t == Max(now, vp_next_t)          \* sleep until next_t
                 m == <<ViewPubTopic, ViewPubHeader(vp_seq, t), "jpg">>
             IN  /\ t <= MaxTime
                 /\ now' = t
                 /\ vp_next_t' = vp_next_t + VpInterval
                 /\ IF okEnc
                    THEN /\ vp_sent' = <<m>>
                         /\ sub_tracker' \in SubTrackerOutcomes(sub_tracker, m)
                         /\ \E q \in VoOutcomes(vo, m) : vo' = [vo EXCEPT !.queue = q]
                         /\ vp_seq' = SeqAfterCycle(vp_seq, TRUE)
                    ELSE /\ vp_seq' = SeqAfterCycle(vp_seq, FALSE)
                         /\ UNCHANGED <<vp_sent, sub_tracker, vo>>
                 /\ UNCHANGED <<raw_seq, vars_tracker, track, stream, pub_pipe, viewer, ctl, vars_rest>>

\* Another publisher bound to the endpoint tracker_pi connects to (--connect):
\* it sends frames, decodable or not, on the topic the tracker subscribes to.
RawTopic == "video.raw"
RawPayloads == {"jpg", "garbage"}

RawPublish ==
    /\ raw_seq < MaxFrames
    /\ \E payload \in RawPayloads :
        LET m == <<RawTopic, ViewPubHeader(raw_seq, now), payload>>
        IN  /\ sub_tracker' \in SubTrackerOutcomes(sub_tracker, m)
            /\ \E q \in VoOutcomes(vo, m) : vo' = [vo EXCEPT !.queue = q]
            /\ raw_seq' = raw_seq + 1
    /\ UNCHANGED <<now, vars_view_pub, vars_tracker, track, stream, pub_pipe, viewer, ctl, vars_rest>>

\* What that publisher can also send on the topic: a header that is no JSON, a
\* message of two parts, a message of four parts.
MalformedMessages(seq, ts) ==
    { <<RawTopic, NotJson, "jpg">>,
      <<RawTopic, ViewPubHeader(seq, ts)>>,
      <<RawTopic, ViewPubHeader(seq, ts), "jpg", "jpg">> }

RawPublishMalformed ==
    /\ raw_seq < MaxFrames
    /\ \E m \in MalformedMessages(raw_seq, now) :
        /\ sub_tracker' \in SubTrackerOutcomes(sub_tracker, m)
        /\ \E q \in VoOutcomes(vo, m) : vo' = [vo EXCEPT !.queue = q]
        /\ raw_seq' = raw_seq + 1
    /\ UNCHANGED <<now, vars_view_pub, vars_tracker, track, stream, pub_pipe, viewer, ctl, vars_rest>>

\* the clock advances while every process waits
Tick ==
    /\ now < MaxTime
    /\ now' = now + 1
    /\ UNCHANGED <<vars_view_pub, sub_tracker, raw_seq, vars_tracker, track, stream, vars_subs, ctl, vars_rest>>

-----------------------------------------------------------------------------
(* The tracking capability (cv2.legacy tracker), a black box: init answers *)
(* a boolean, update answers (ok, bbox).                                   *)

Boxes == { <<140, 100, 40, 40>>,      \* centred, area 1600
           <<0, 0, 7, 8>>,            \* area 56 < MIN_AREA
           <<200, 60, 120, 110>> }    \* area 13200 >= TARGET_AREA, right of centre

UpdateFailed == [ok |-> FALSE, bbox |-> <<0, 0, 0, 0>>]
UpdateOutcomes == {UpdateFailed} \cup { [ok |-> TRUE, bbox |-> b] : b \in Boxes }

BoxArea(b) == b[3] * b[4]

\* --roi is not given (argparse default None)
args_roi == None

\* the arguments without a command line: the argparse defaults (lines 14-18)
ArgsDefault == [kind |-> "CSRT", roi |-> args_roi, show |-> FALSE]

\* --kind ... choices=["CSRT","KCF"] (line 16)
KindChoices == {"CSRT", "KCF"}

\* command lines: a kind argparse knows and one it does not; no --roi, a region
\* inside a 320x240 frame, one of width 0, one of negative height, one outside
\* the frame (--roi takes any four ints, line 17)
KindArgs == {"CSRT", "MOSSE"}
RoiArgs == { None, Some(<<140, 100, 40, 40>>), Some(<<10, 10, 0, 20>>),
            Some(<<10, 10, 20, -5>>), Some(<<400, 300, 40, 40>>) }

\* a region of positive size inside a frame of W x H
RoiInFrame(roi, W, H) ==
    /\ roi[3] > 0 /\ roi[4] > 0
    /\ roi[1] >= 0 /\ roi[2] >= 0
    /\ roi[1] + roi[3] <= W /\ roi[2] + roi[4] <= H

\* the region the tracker is initialised on, for a frame of W x H
InitRoi(W, H) ==
    IF args.roi # None THEN Val(args.roi)
    ELSE LET w == Min(80, W \div 3)
             h == Min(80, H \div 3)
         IN  <<W \div 2 - w \div 2, H \div 2 - h \div 2, w, h>>

-----------------------------------------------------------------------------
(* Smoothing and control law (tracker_pi.py 70-77, track.py 61-70,         *)
(* track_and_stream_pi.py 138-147)                                         *)

\* x + w/2, in units of 1/FP
Centroid(b) == b[1] * FP + (b[3] * FP) \div 2

\* v if prev is None else (1-EMA_ALPHA)*prev + EMA_ALPHA*v
Ema(prev, v) ==
    IF prev = None THEN v
    ELSE RoundDiv((EMA_ALPHA[2] - EMA_ALPHA[1]) * Val(prev) + EMA_ALPHA[1] * v, EMA_ALPHA[2])

\* err_x = (mx_s - cx)/cx with cx = W/2
ErrXMut(mx, W) == RoundDiv((mx - W * FP) * 2, W)
ErrX(mx, W) == RoundDiv((mx - (W * FP) \div 2) * 2, W)

Turn(err_x) == clamp(0 - MulQ(Kp_turn, err_x), 0 - FP, FP)

FwdMut(area) ==
    clamp(RoundDiv(TARGET_AREA * FP - area, Max(TARGET_AREA, 1)), 0, Q(FWD_MAX))
Fwd(area) ==
    IF area < TARGET_AREA * FP
    THEN clamp(RoundDiv(TARGET_AREA * FP - area, Max(TARGET_AREA, 1)), Q(FWD_MIN), Q(FWD_MAX))
    ELSE 0

DriveLeftMut(fwd, turn) == fwd + turn
DriveLeft(fwd, turn) == clamp(fwd + turn, 0 - FP, FP)
DriveRight(fwd, turn) == clamp(fwd - turn, 0 - FP, FP)

ControlLaw(mx, area, W) ==
    LET err_x == ErrX(mx, W)
        turn  == Turn(err_x)
        fwd   == Fwd(area)
    IN  [err_x |-> err_x, turn |-> turn, fwd |-> fwd,
         l |-> DriveLeft(fwd, turn), r |-> DriveRight(fwd, turn)]

\* the searching behaviour: spin, or stop once the target was not seen for STOP_TIMEOUT
SearchCommand(t, seen) ==
    IF t - seen > STOP_TIMEOUT THEN <<0, 0>> ELSE <<Q(SEARCH_SPIN), 0 - Q(SEARCH_SPIN)>>

-----------------------------------------------------------------------------
(* tracker_pi.py: one iteration of the while loop of main                  *)

\* dict.get(key, default)
Get(d, k, default) == IF k \in DOMAIN d THEN d[k] ELSE default

EmptyDict == [k \in {} |-> 0]

\* The clock may advance by one unit during a cycle.  The cycle reads it at
\* five places, in this order: 1 = line 60, 2 = line 78 or 99, 3 = line 107,
\* 4 = line 113, 5 = line 117.  tk = 0: no advance; tk = p: the clock
\* advances just before the read at place p.  The places explored: before the
\* tracking reads and between two publications.
TickPlaces == {0, 2, 4}
TimeAt(p, tk) == IF tk # 0 /\ p >= tk THEN now + 1 ELSE now

\* state = {...} of a cycle with a valid box (lines 85-92; "fps" is presentation only)
StateDict(b, area, law) ==
    [bbox |-> b, area |-> area, err_x |-> law.err_x, fwd |-> law.fwd, turn |-> law.turn]

\* the header of the annotated-video message (line 107)
VideoHeader(seq, ts) ==
    [seq |-> seq, ts_ns |-> ts, kind |-> "video", w |-> FRAME_W, h |-> FRAME_H, fmt |-> "jpg"]

\* arr and the header of the tensor message (lines 112-113)
TensorArrMut(l, r, state) ==
    << Float32(l), Float32(r), Float32(Get(state, "fwd", 0)),
       Float32(Get(state, "err_x", 0)), Float32(Get(state, "turn", 0)) >>
TensorArr(l, r, state) ==
    << Float32(l), Float32(r), Float32(Get(state, "err_x", 0)),
       Float32(Get(state, "fwd", 0)), Float32(Get(state, "turn", 0)) >>

TensorHeader(seq, ts, arr) ==
    [seq |-> seq, ts_ns |-> ts, kind |-> "tensor", name |-> "drive_state",
     dtype |-> "float32", shape |-> <<Len(arr)>>]

\* cmd of the drive.cmd message (line 117)
DriveCmdMut(l, r, ts) == [l |-> r, r |-> l, ts_ns |-> ts]
DriveCmd(l, r, ts) == [l |-> l, r |-> r, ts_ns |-> ts]

\* have_roi after the searching branch (line 102)
HaveRoiAfterLostMut == TRUE
HaveRoiAfterLost == FALSE

\* mx_s and area_s after the (re)initialisation (line 59)
SmoothedAfterInitMut(prev) == prev
SmoothedAfterInit(prev) == None

\* last_seen after the (re)initialisation (line 60)
LastSeenAfterInit(t, seen) == t

\* a box counts as an observation of the target (lines 66-69)
ValidMut(ok, bbox) == ok
Valid(ok, bbox) == ok /\ BoxArea(bbox) >= MIN_AREA

NoCycle ==
    [ran |-> FALSE, frame |-> ViewPubHeader(0, 0), had_roi |-> FALSE, init |-> FALSE,
     init_ok |-> FALSE, roi |-> <<0, 0, 0, 0>>, updated |-> FALSE, upd |-> UpdateFailed,
     t_cmd |-> 0, seen |-> 0, state |-> EmptyDict, seq |-> 0, before |-> 0, streak |-> 0]

\* what one cycle computes from the decoded frame with header meta, given the
\* answers of tracker.init and tracker.update (lines 51-102)
TrackStep(meta, initOk, upd, t_init, t_cmd) ==
    LET W     == meta.w
        \* lines 52-60
        init  == ~have_roi
        have1 == IF init THEN initOk ELSE have_roi
        mx0   == IF init THEN SmoothedAfterInit(mx_s) ELSE mx_s
        ar0   == IF init THEN SmoothedAfterInit(area_s) ELSE area_s
        seen0 == IF init THEN LastSeenAfterInit(t_init, last_seen) ELSE last_seen
        \* line 62
        ok0   == have1 /\ upd.ok
        b     == upd.bbox
    IN  IF Valid(ok0, b)
        THEN \* lines 67-92
             LET mx1 == Ema(mx0, Centroid(b))
                 ar1 == Ema(ar0, BoxArea(b) * FP)
                 law == ControlLaw(mx1, ar1, W)
             IN  [valid |-> TRUE, mx_s |-> Some(mx1), area_s |-> Some(ar1),
                  last_seen |-> t_cmd, seen |-> seen0, have_roi |-> have1,
                  cmd |-> <<law.l, law.r>>, state |-> StateDict(b, ar1, law)]
        ELSE \* lines 96-102
             [valid |-> FALSE, mx_s |-> mx0, area_s |-> ar0,
              last_seen |-> seen0, seen |-> seen0, have_roi |-> HaveRoiAfterLost,
              cmd |-> SearchCommand(t_cmd, seen0), state |-> EmptyDict]

\* the frame after the overlay is drawn: the input frame, and the box or the "Lost" text
Annotated(meta, valid) == [of |-> meta, overlay |-> IF valid THEN "box" ELSE "lost"]

\* the messages of one cycle, in the order they are sent (lines 104-118): the
\* annotated frame only if cv2.imencode succeeded
PublishedMut(okJ, video, tensor, drive) == IF okJ THEN <<video, tensor, drive>> ELSE <<>>
Published(okJ, video, tensor, drive) == (IF okJ THEN <<video>> ELSE <<>>) \o <<tensor, drive>>

\* tracker_pi's PUB socket (lines 28-29, no option set).  send on a PUB socket
\* never blocks: a message for a peer whose pipe is at the high-water mark is
\* dropped.
PubSendBlocksMut(pipe) == Len(pipe) >= PubHwm
PubSendBlocks(pipe) == FALSE
PubSend(pipe, m) == IF Len(pipe) < PubHwm THEN Append(pipe, m) ELSE pipe

\* The pipe of the connected peer v after pub.send_multipart of each of msgs, in
\* order; a PUB socket sends a peer the messages its subscription accepts.
\* blocked: one of the sends did not return.
RECURSIVE PubPublish(_, _, _)
PubPublish(pipe, v, msgs) ==
    IF msgs = <<>> THEN [pipe |-> pipe, blocked |-> FALSE]
    ELSE IF v.pc = "running" /\ Accepts(v.topic, Topic(Head(msgs)))
         THEN IF PubSendBlocks(pipe) THEN [pipe |-> pipe, blocked |-> TRUE]
              ELSE PubPublish(PubSend(pipe, Head(msgs)), v, Tail(msgs))
         ELSE PubPublish(pipe, v, Tail(msgs))

\* an exception leaves main: the process ends and its state is gone
TrackerCrash ==
    /\ tracker_pc' = "crashed"
    /\ have_roi' = FALSE /\ mx_s' = None /\ area_s' = None /\ last_seen' = 0
    /\ seq_out' = 0 /\ out' = <<>> /\ cyc' = NoCycle /\ observed_at' = None
    /\ tracker_res' = {}
    /\ UNCHANGED <<now, vars_view_pub, raw_seq, track, stream, vars_subs, ctl, ema, args,
                   vars_api, vars_ws>>

\* the sockets main opens before its loop (lines 21-29)
TrackerSockets == {"sub", "pub"}

\* lines 13-19: ap.parse_args() ends the process with status 2 for a --kind that
\* is not among the choices; every --roi of four ints is accepted.  Lines 21-29
\* open the two sockets.
TrackerStart ==
    /\ tracker_pc = "start"
    /\ \E kind \in KindArgs, roi \in RoiArgs, show \in BOOLEAN :
          /\ args' = [kind |-> kind, roi |-> roi, show |-> show]
          /\ tracker_pc' = IF kind \in KindChoices THEN "running" ELSE "rejected"
          /\ tracker_res' = IF kind \in KindChoices THEN TrackerSockets ELSE {}
    /\ UNCHANGED <<now, vars_view_pub, sub_tracker, raw_seq, have_roi, mx_s, area_s, last_seen,
                   seq_out, out, cyc, observed_at, track, stream, vars_subs, ctl, ema,
                   vars_api, vars_ws>>

TrackerCycle ==
    /\ tracker_pc = "running"
    /\ sub_tracker # <<>>
    /\ sub_tracker' = <<>>                           \* sub.recv_multipart()
    /\ LET msg  == sub_tracker[1]
           meta == Header(msg)
       IN
       IF Len(msg) # 3 \/ ~IsJson(meta)
       THEN \* ValueError of the unpacking (line 40) or of json.loads (line 41):
            \* nothing catches it, main ends and the state of the process is gone
            TrackerCrash
       ELSE
       IF Payload(msg) # "jpg"
       THEN \* frame is None: continue
            UNCHANGED <<now, vars_view_pub, raw_seq, vars_tracker, track, stream, vars_subs, ctl, vars_rest>>
       ELSE
       \* tracker.init (line 58) on a region that is empty or not inside the frame may
       \* answer or raise cv2.error, which nothing catches
       \E initRaises \in (IF ~have_roi /\ ~RoiInFrame(InitRoi(meta.w, meta.h), meta.w, meta.h)
                          THEN BOOLEAN ELSE {FALSE}) :
       IF initRaises THEN TrackerCrash ELSE
       \* tracker.init is called only without a region, tracker.update only with one
       \E initOk \in (IF have_roi THEN {TRUE} ELSE BOOLEAN) :
       \E upd \in (IF have_roi \/ initOk THEN UpdateOutcomes ELSE {UpdateFailed}) :
       \E okJ \in BOOLEAN, tk \in TickPlaces :
       \E s \in {TrackStep(meta, initOk, upd, TimeAt(1, tk), TimeAt(2, tk))} :
       \E arr \in {TensorArr(s.cmd[1], s.cmd[2], s.state)} :
        \* lines 104-118
        LET video   == <<TOPIC_VIDEO_ANNOT, VideoHeader(seq_out, TimeAt(3, tk)),
                         Annotated(meta, s.valid)>>
            tensor  == <<TOPIC_TENSOR_STATE, TensorHeader(seq_out, TimeAt(4, tk), arr), arr>>
            drive   == <<TOPIC_DRIVE_CMD, DriveCmd(s.cmd[1], s.cmd[2], TimeAt(5, tk)), <<>> >>
        IN  /\ TimeAt(5, tk) <= MaxTime
            /\ now' = TimeAt(5, tk)
            /\ have_roi' = s.have_roi
            /\ mx_s' = s.mx_s
            /\ area_s' = s.area_s
            /\ last_seen' = s.last_seen
            /\ out' = Published(okJ, video, tensor, drive)
            /\ \E p \in {PubPublish(pub_pipe, viewer, out')} :
                  ~p.blocked /\ pub_pipe' = p.pipe
            \* lines 122-124: with --show, ESC leaves the loop and main returns
            /\ \E key \in (IF args.show THEN {"none", "esc"} ELSE {"none"}) :
                  tracker_pc' = IF key = "esc" THEN "exited" ELSE tracker_pc
            /\ seq_out' = seq_out + 1
            /\ observed_at' = IF s.valid THEN Some(TimeAt(2, tk)) ELSE observed_at
            /\ cyc' = [ran |-> TRUE, frame |-> meta, had_roi |-> have_roi,
                       init |-> ~have_roi, init_ok |-> ~have_roi /\ initOk,
                       roi |-> InitRoi(meta.w, meta.h),
                       updated |-> have_roi \/ initOk, upd |-> upd,
                       t_cmd |-> TimeAt(2, tk), seen |-> s.seen,
                       state |-> s.state, seq |-> seq_out,
                       before |-> cyc.streak,
                       streak |-> IF s.valid THEN cyc.streak + 1 ELSE 0]
            /\ UNCHANGED <<vars_view_pub, raw_seq, track, stream, viewer, vo, ctl, vars_rest>>

-----------------------------------------------------------------------------
(* track.py: one iteration of the module-level while loop                  *)

Keys == {"none", "s", "esc"}

\* what cv2.selectROI answers: a dragged box, or an empty one
Selections == { <<140, 100, 40, 40>>, <<0, 0, 0, 0>> }

NoLocalCycle ==
    [ran |-> FALSE, had_roi |-> FALSE, updated |-> FALSE, upd |-> UpdateFailed,
     t_cmd |-> 0, seen |-> 0, init |-> FALSE, init_ok |-> FALSE, was_lost |-> FALSE]

\* the drive() calls of the tracking block (lines 55-87), in order
TrackDrives(valid, law, t, seen) ==
    IF valid THEN << <<law.l, law.r>> >>
    ELSE << <<Q(SEARCH_SPIN), 0 - Q(SEARCH_SPIN)>> >>
         \o (IF t - seen > STOP_TIMEOUT THEN << <<0, 0>> >> ELSE <<>>)

TrackCycle ==
    /\ track.running
    /\ track.reads < MaxReads
    /\ \E okRead \in BOOLEAN :
       IF ~okRead
       THEN \* time.sleep(0.01); continue
            UNCHANGED vars
       ELSE
       \E upd \in (IF track.have_roi THEN UpdateOutcomes ELSE {UpdateFailed}) :
       \E key \in Keys :
       \E box \in (IF key = "s" THEN Selections ELSE {<<0, 0, 0, 0>>}) :
       \E initOk \in (IF key = "s" /\ box[3] > 0 /\ box[4] > 0 THEN BOOLEAN ELSE {FALSE}) :
        LET \* lines 55-87
            updated == track.have_roi
            valid == updated /\ Valid(upd.ok, upd.bbox)
            mx1   == IF valid THEN Some(Ema(track.mx_s, Centroid(upd.bbox))) ELSE track.mx_s
            ar1   == IF valid THEN Some(Ema(track.area_s, BoxArea(upd.bbox) * FP))
                     ELSE track.area_s
            law   == IF valid THEN ControlLaw(Val(mx1), Val(ar1), FRAME_W)
                     ELSE ControlLaw(0, 0, FRAME_W)
            drives == IF updated THEN TrackDrives(valid, law, now, track.last_seen) ELSE <<>>
            seen1 == IF valid THEN now ELSE track.last_seen
            \* lines 92-105
            select == key = "s" /\ box[3] > 0 /\ box[4] > 0
        IN  /\ track' = [running   |-> key # "esc",
                         reads     |-> track.reads + 1,
                         have_roi  |-> IF select THEN initOk ELSE track.have_roi,
                         mx_s      |-> IF select THEN None ELSE mx1,
                         area_s    |-> IF select THEN None ELSE ar1,
                         last_seen |-> IF select THEN now ELSE seen1,
                         drives    |-> drives,
                         cyc       |-> [ran |-> TRUE, had_roi |-> track.have_roi,
                                        updated |-> updated, upd |-> upd, t_cmd |-> now,
                                        seen |-> track.last_seen, init |-> select,
                                        init_ok |-> select /\ initOk, was_lost |-> FALSE]]
            /\ UNCHANGED <<now, vars_view_pub, sub_tracker, raw_seq, vars_tracker, stream, vars_subs, ctl, vars_rest>>

-----------------------------------------------------------------------------
(* track_and_stream_pi.py: main                                            *)

\* init_tracker(frm) (lines 103-115): the fields it assigns
InitTracker_stream(st, initOk, t) ==
    [st EXCEPT !.have_roi = initOk, !.mx_s = None, !.area_s = None, !.last_seen = t]

\* lines 97-117: prime the first frame, initialise the tracker
StreamStart ==
    /\ stream.pc = "start"
    /\ \E okRead \in BOOLEAN, initOk \in BOOLEAN :
        IF ~okRead
        THEN \* sys.exit(1)
             stream' = [stream EXCEPT !.pc = "exited", !.exit_code = 1]
        ELSE stream' = [InitTracker_stream(stream, initOk, now) EXCEPT
                           !.pc = "loop",
                           !.cyc = [NoLocalCycle EXCEPT !.init = TRUE, !.init_ok = initOk]]
    /\ UNCHANGED <<now, vars_view_pub, sub_tracker, raw_seq, vars_tracker, track, vars_subs, ctl, vars_rest>>

\* lines 119-173: one iteration of the while loop
StreamCycle ==
    /\ stream.pc = "loop"
    /\ stream.reads < MaxReads
    /\ \E okRead \in BOOLEAN :
       IF ~okRead
       THEN \* time.sleep(0.005); continue
            UNCHANGED vars
       ELSE
       \E upd \in (IF stream.have_roi THEN UpdateOutcomes ELSE {UpdateFailed}) :
       \E initOk \in (IF stream.have_roi /\ ~Valid(upd.ok, upd.bbox) THEN BOOLEAN ELSE {FALSE}) :
       \E pipeOk \in BOOLEAN :
        LET \* lines 132-166
            updated == stream.have_roi
            valid == updated /\ Valid(upd.ok, upd.bbox)
            lost  == updated /\ ~valid
            mx1   == IF valid THEN Some(Ema(stream.mx_s, Centroid(upd.bbox))) ELSE stream.mx_s
            ar1   == IF valid THEN Some(Ema(stream.area_s, BoxArea(upd.bbox) * FP))
                     ELSE stream.area_s
            law   == IF valid THEN ControlLaw(Val(mx1), Val(ar1), FRAME_W)
                     ELSE ControlLaw(0, 0, FRAME_W)
            st1   == [stream EXCEPT !.mx_s = mx1, !.area_s = ar1,
                                    !.last_seen = IF valid THEN now ELSE stream.last_seen,
                                    !.drives = IF valid THEN << <<law.l, law.r>> >> ELSE <<>>]
            st2   == IF lost THEN InitTracker_stream(st1, initOk, now) ELSE st1
        IN  /\ stream' = [st2 EXCEPT
                            !.reads = stream.reads + 1,
                            \* lines 168-181: a closed encoder pipe ends the loop
                            !.pc = IF pipeOk THEN "loop" ELSE "exited",
                            \* lines 175-181: ff.stdin.close(), cap.release()
                            !.open = IF pipeOk THEN stream.open ELSE {},
                            \* observation: the target is lost and no lock was taken since
                            !.lost = IF lost THEN ~initOk ELSE stream.lost,
                            !.cyc = [ran |-> TRUE, had_roi |-> stream.have_roi,
                                     updated |-> updated, upd |-> upd, t_cmd |-> now,
                                     seen |-> stream.last_seen, init |-> lost,
                                     init_ok |-> lost /\ initOk, was_lost |-> stream.lost]]
            /\ UNCHANGED <<now, vars_view_pub, sub_tracker, raw_seq, vars_tracker, track, vars_subs, ctl, vars_rest>>

-----------------------------------------------------------------------------
(* viewer_sub.py, connected to tracker_pi's PUB socket                     *)

\* --topic: the result topics (the default is "video.annot")
ViewerTopics == {TOPIC_VIDEO_ANNOT, TOPIC_TENSOR_STATE, TOPIC_DRIVE_CMD}

\* lines 11-14: CONFLATE is set in every configuration
ViewerSocket(v) == [subscribe |-> v.topic, conflate |-> TRUE, hwm |-> 1, queue |-> v.slot]

ViewerOff == [pc |-> "off", topic |-> TOPIC_VIDEO_ANNOT, slot |-> <<>>, open |-> {}]

\* the program is started (again): lines 5-16
ViewerStart ==
    /\ viewer.pc # "running"
    /\ \E topic \in ViewerTopics :
          viewer' = [pc |-> "running", topic |-> topic, slot |-> <<>>, open |-> {"sub"}]
    /\ pub_pipe' = <<>>
    /\ UNCHANGED <<now, vars_view_pub, sub_tracker, raw_seq, vars_tracker, track, stream, vo, ctl, vars_rest>>

\* the transport hands the oldest message queued at the PUB socket to the viewer's socket
ViewerDeliver ==
    /\ viewer.pc = "running"
    /\ pub_pipe # <<>>
    /\ pub_pipe' = Tail(pub_pipe)
    /\ \E q \in SubOutcomes(ViewerSocket(viewer), Head(pub_pipe)) :
          viewer' = [viewer EXCEPT !.slot = q]
    /\ UNCHANGED <<now, vars_view_pub, sub_tracker, raw_seq, vars_tracker, track, stream, vo, ctl, vars_rest>>

\* lines 17-26: one iteration of the while loop
ViewerCycle ==
    /\ viewer.pc = "running"
    /\ viewer.slot # <<>>
    /\ LET msg == viewer.slot[1] IN
       IF Len(msg) # 3 \/ ~IsJson(Header(msg))
       THEN \* ValueError (line 18 or 19): the program ends, its socket with it
            /\ viewer' = [ViewerOff EXCEPT !.pc = "crashed"]
            /\ pub_pipe' = <<>>
       ELSE IF Get(Header(msg), "fmt", "") = "jpg"
            THEN \E key \in {"none", "esc"} :
                   /\ viewer' = IF key = "esc"
                                THEN \* line 26: only the window is destroyed
                                     [ViewerOff EXCEPT !.pc = "exited", !.open = viewer.open]
                                 ELSE [viewer EXCEPT !.slot = <<>>]
                   /\ pub_pipe' = IF key = "esc" THEN <<>> ELSE pub_pipe
            ELSE /\ viewer' = [viewer EXCEPT !.slot = <<>>]
                 /\ pub_pipe' = pub_pipe
    /\ UNCHANGED <<now, vars_view_pub, sub_tracker, raw_seq, vars_tracker, track, stream, vo, ctl, vars_rest>>

-----------------------------------------------------------------------------
(* video_only_sub.py, connected to the camera endpoint                     *)

VoOff == [pc |-> "off", conflate |-> FALSE, queue |-> <<>>, got |-> None, open |-> {}]

\* lines 5-20: --conflate is a store_true flag, absent by default
VoStart ==
    /\ vo.pc = "off"
    /\ \E args_conflate \in BOOLEAN :
          vo' = [pc |-> "running", conflate |-> args_conflate, queue |-> <<>>, got |-> None,
                 open |-> {"sub"}]
    /\ UNCHANGED <<now, vars_view_pub, sub_tracker, raw_seq, vars_tracker, track, stream,
                   pub_pipe, viewer, ctl, vars_rest>>

\* lines 22-46: one iteration of the while loop
VoCycle ==
    /\ vo.pc = "running"
    /\ vo.queue # <<>>
    /\ LET msg == Head(vo.queue) IN
       IF Len(msg) # 3 \/ ~IsJson(Header(msg))
       THEN \* ValueError (line 23 or 24)
            vo' = [vo EXCEPT !.pc = "crashed", !.queue = <<>>, !.open = {}]
       ELSE IF Payload(msg) # "jpg"
            THEN \* img is None: continue
                 vo' = [vo EXCEPT !.queue = Tail(vo.queue)]
            ELSE \E key \in {"none", "esc"} :
                   vo' = [vo EXCEPT !.pc = IF key = "esc" THEN "exited" ELSE "running",
                                    !.queue = IF key = "esc" THEN <<>> ELSE Tail(vo.queue),
                                    !.got = Some(Header(msg))]
    /\ UNCHANGED <<now, vars_view_pub, sub_tracker, raw_seq, vars_tracker, track, stream,
                   pub_pipe, viewer, ctl, vars_rest>>

-----------------------------------------------------------------------------
(* The control law on chosen inputs                                        *)

NoLaw == [mode |-> "none", mx |-> 0, area |-> 0, t |-> 0, seen |-> 0,
          err_x |-> 0, fwd |-> 0, turn |-> 0, l |-> 0, r |-> 0]

\* smoothed centroids: in steps of a sixteenth of the frame width, from a box
\* reaching out of the frame on the left to one reaching out on the right
SmoothedCentroids == { (k * FRAME_W * FP) \div 16 : k \in -4 .. 24 }

\* smoothed areas, in pixels: around MIN_AREA, around the area where the forward
\* band begins ((1 - 0.15) * TARGET_AREA), around TARGET_AREA, the whole frame
SmoothedAreas ==
    { a * FP : a \in {MIN_AREA, 1600, 3600, 6000, 10199, 10200, 10201, 11999,
                      TARGET_AREA, TARGET_AREA + 1, 13200, FRAME_W * FRAME_H} }
    \cup { TARGET_AREA * FP - 1, 3599 * FP + FP \div 2 }

\* lines 73-77 on a smoothed centroid and area, or lines 98-99 on the time since
\* the target was seen
ApplyLaw ==
    /\ \/ \E mx \in SmoothedCentroids, area \in SmoothedAreas :
            \E c \in {ControlLaw(mx, area, FRAME_W)} :
              ctl' = [mode |-> "tracked", mx |-> mx, area |-> area, t |-> 0, seen |-> 0,
                      err_x |-> c.err_x, fwd |-> c.fwd, turn |-> c.turn, l |-> c.l, r |-> c.r]
       \/ \E t \in 0 .. MaxTime : \E seen \in 0 .. t :
            \E c \in {SearchCommand(t, seen)} :
              ctl' = [mode |-> "lost", mx |-> 0, area |-> 0, t |-> t, seen |-> seen,
                      err_x |-> 0, fwd |-> 0, turn |-> 0, l |-> c[1], r |-> c[2]]
    /\ UNCHANGED <<now, vars_view_pub, sub_tracker, raw_seq, vars_tracker, track, stream,
                   vars_subs, vars_rest>>

-----------------------------------------------------------------------------
(* The smoothing in the arithmetic of the interpreter                      *)
(* A Python float is an IEEE-754 binary64.  A non-negative one is written  *)
(* [m, e] for m * 2^e with m < 2^53; m is a natural number in limbs of     *)
(* LIMB_BITS bits, least significant first, <<>> for 0.                    *)

LIMB_BITS == 15
MANT_BITS == 53

RECURSIVE Pow2(_)
Pow2(k) == IF k = 0 THEN 1 ELSE 2 * Pow2(k - 1)

LIMB == Pow2(LIMB_BITS)

RECURSIVE BigNorm(_)
BigNorm(a) == IF a # <<>> /\ a[Len(a)] = 0 THEN BigNorm(SubSeq(a, 1, Len(a) - 1)) ELSE a

RECURSIVE BigOfNat(_)
BigOfNat(n) == IF n = 0 THEN <<>> ELSE <<n % LIMB>> \o BigOfNat(n \div LIMB)

RECURSIVE BigAddC(_, _, _)
BigAddC(a, b, c) ==
    IF a = <<>> /\ b = <<>> THEN (IF c = 0 THEN <<>> ELSE <<c>>)
    ELSE LET s == (IF a = <<>> THEN 0 ELSE Head(a)) + (IF b = <<>> THEN 0 ELSE Head(b)) + c
         IN  <<s % LIMB>> \o BigAddC(IF a = <<>> THEN <<>> ELSE Tail(a),
                                     IF b = <<>> THEN <<>> ELSE Tail(b), s \div LIMB)

BigAdd(a, b) == BigAddC(a, b, 0)

\* a - b for a >= b
RECURSIVE BigSubB(_, _, _)
BigSubB(a, b, c) ==
    IF a = <<>> THEN <<>>
    ELSE LET d == Head(a) - (IF b = <<>> THEN 0 ELSE Head(b)) - c
         IN  <<IF d < 0 THEN d + LIMB ELSE d>>
             \o BigSubB(Tail(a), IF b = <<>> THEN <<>> ELSE Tail(b), IF d < 0 THEN 1 ELSE 0)

BigSub(a, b) == BigNorm(BigSubB(a, b, 0))

RECURSIVE BigMulSmallC(_, _, _)
BigMulSmallC(a, d, c) ==
    IF a = <<>> THEN (IF c = 0 THEN <<>> ELSE <<c>>)
    ELSE LET p == Head(a) * d + c
         IN  <<p % LIMB>> \o BigMulSmallC(Tail(a), d, p \div LIMB)

BigMulSmall(a, d) == BigNorm(BigMulSmallC(a, d, 0))

RECURSIVE BigMul(_, _)
BigMul(a, b) ==
    IF b = <<>> \/ a = <<>> THEN <<>>
    ELSE BigAdd(BigMulSmall(a, Head(b)),
                LET r == BigMul(a, Tail(b)) IN IF r = <<>> THEN <<>> ELSE <<0>> \o r)

\* [q, r]: quotient and remainder of a by the small number d
RECURSIVE BigDivSmallR(_, _)
BigDivSmallR(a, d) ==
    IF a = <<>> THEN [q |-> <<>>, r |-> 0]
    ELSE LET hi == BigDivSmallR(Tail(a), d)
             n  == hi.r * LIMB + Head(a)
         IN  [q |-> <<n \div d>> \o hi.q, r |-> n % d]

\* -1, 0, 1 as a < b, a = b, a > b
RECURSIVE BigCmp(_, _)
BigCmp(a, b) ==
    IF Len(a) # Len(b) THEN (IF Len(a) < Len(b) THEN -1 ELSE 1)
    ELSE IF a = <<>> THEN 0
    ELSE IF a[Len(a)] # b[Len(b)] THEN (IF a[Len(a)] < b[Len(b)] THEN -1 ELSE 1)
    ELSE BigCmp(BigNorm(SubSeq(a, 1, Len(a) - 1)), BigNorm(SubSeq(b, 1, Len(b) - 1)))

RECURSIVE BitLen(_)
BitLen(n) == IF n = 0 THEN 0 ELSE 1 + BitLen(n \div 2)

BigBitLen(a) == IF a = <<>> THEN 0 ELSE LIMB_BITS * (Len(a) - 1) + BitLen(a[Len(a)])

BigShl(a, s) ==
    IF a = <<>> THEN <<>>
    ELSE [i \in 1 .. (s \div LIMB_BITS) |-> 0] \o BigMulSmall(a, Pow2(s % LIMB_BITS))

\* floor(a / 2^s)
BigShr(a, s) ==
    LET k == s \div LIMB_BITS
        r == s % LIMB_BITS
        t == IF k >= Len(a) THEN <<>> ELSE SubSeq(a, k + 1, Len(a))
    IN  BigNorm([i \in 1 .. Len(t) |->
                   (t[i] \div Pow2(r))
                   + (IF i < Len(t) THEN (t[i + 1] % Pow2(r)) * Pow2(LIMB_BITS - r) ELSE 0)])

BigBit(a, i) ==
    IF i \div LIMB_BITS >= Len(a) THEN 0
    ELSE (a[i \div LIMB_BITS + 1] \div Pow2(i % LIMB_BITS)) % 2

\* the s low bits of a are zero
BigLowZero(a, s) ==
    /\ \A i \in 1 .. (s \div LIMB_BITS) : i > Len(a) \/ a[i] = 0
    /\ s \div LIMB_BITS >= Len(a) \/ a[s \div LIMB_BITS + 1] % Pow2(s % LIMB_BITS) = 0

\* n * 2^e rounded to the nearest binary64, ties to even
F64Round(n, e) ==
    LET s == BigBitLen(n) - MANT_BITS
    IN  IF s <= 0 THEN [m |-> BigShl(n, 0 - s), e |-> IF n = <<>> THEN 0 ELSE e + s]
        ELSE LET q    == BigShr(n, s)
                 half == BigBit(n, s - 1) = 1
                 up   == half /\ (~BigLowZero(n, s - 1) \/ BigBit(q, 0) = 1)
                 q1   == IF up THEN BigAdd(q, <<1>>) ELSE q
             IN  IF BigBitLen(q1) > MANT_BITS THEN [m |-> BigShr(q1, 1), e |-> e + s + 1]
                 ELSE [m |-> q1, e |-> e + s]

F64Zero(a) == a.m = <<>>

\* the two mantissas over a common exponent
F64Align(a, b) ==
    LET em == IF F64Zero(a) THEN b.e ELSE IF F64Zero(b) THEN a.e ELSE Min(a.e, b.e)
    IN  [a |-> BigShl(a.m, IF F64Zero(a) THEN 0 ELSE a.e - em),
         b |-> BigShl(b.m, IF F64Zero(b) THEN 0 ELSE b.e - em), e |-> em]

F64Mul(a, b) == F64Round(BigMul(a.m, b.m), a.e + b.e)
F64Add(a, b) == LET al == F64Align(a, b) IN F64Round(BigAdd(al.a, al.b), al.e)
\* a - b for a >= b
F64Sub(a, b) == LET al == F64Align(a, b) IN F64Round(BigSub(al.a, al.b), al.e)
F64Cmp(a, b) == LET al == F64Align(a, b) IN BigCmp(al.a, al.b)
F64Leq(a, b) == F64Cmp(a, b) <= 0

\* float(n) of a natural number n, and n / 2 (both exact for the sizes of a frame)
F64OfInt(n) == F64Round(BigOfNat(n), 0)
F64Half(n) == F64Round(BigOfNat(n), -1)

\* the literal p/q (0.3 is <<3, 10>>): the binary64 nearest to it, from the
\* quotient to RATIO_BITS binary places and a sticky bit for the remainder
RATIO_BITS == 60
F64OfRatio(pq) ==
    LET d == BigDivSmallR(BigShl(BigOfNat(pq[1]), RATIO_BITS), pq[2])
    IN  F64Round(BigAdd(BigShl(BigNorm(d.q), 1), IF d.r = 0 THEN <<>> ELSE <<1>>),
                 0 - RATIO_BITS - 1)

\* tracker_pi.py lines 68-72 (track.py 59-64) on a box, as the interpreter computes
\* them: mx = x + w/2, area = w*h (an int, a float once it enters the blend)
CentroidF64(b) == F64Half(2 * b[1] + b[3])
AreaF64(b) == F64OfInt(b[3] * b[4])

\* v if prev is None else (1-EMA_ALPHA)*prev + EMA_ALPHA*v
EmaF64(prev, v) ==
    IF prev = None THEN v
    ELSE F64Add(F64Mul(F64Sub(F64OfInt(1), F64OfRatio(EMA_ALPHA)), Val(prev)),
                F64Mul(F64OfRatio(EMA_ALPHA), v))

\* boxes of a 320x240 frame: the target in the middle, a target further left, a
\* large one on the right, a small one near the left border, a wide one
EmaBoxes == { <<140, 100, 40, 40>>, <<86, 100, 20, 20>>, <<200, 60, 120, 110>>,
              <<2, 50, 21, 9>>, <<30, 90, 125, 64>> }

MaxUpdates == 3

NoEma == [n |-> 0, mx_prev |-> None, area_prev |-> None, mx |-> None, area |-> None,
          mx_s |-> None, area_s |-> None]

\* lines 66-72 of tracker_pi.py on a box of area >= MIN_AREA
EmaUpdate ==
    /\ ema.n < MaxUpdates
    /\ \E b \in EmaBoxes :
         /\ BoxArea(b) >= MIN_AREA
         /\ \E mx \in {CentroidF64(b)}, area \in {AreaF64(b)} :
            \E m2 \in {EmaF64(ema.mx_s, mx)}, a2 \in {EmaF64(ema.area_s, area)} :
              ema' = [n |-> ema.n + 1, mx_prev |-> ema.mx_s, area_prev |-> ema.area_s,
                      mx |-> Some(mx), area |-> Some(area),
                      mx_s |-> Some(m2), area_s |-> Some(a2)]
    /\ UNCHANGED <<now, vars_view_pub, sub_tracker, raw_seq, vars_tracker, track, stream,
                   vars_subs, ctl, args, tracker_res, vars_api, vars_ws>>

-----------------------------------------------------------------------------
(* The LED controller and its endpoints (led_control/led_api.py, and the   *)
(* same class and routes in api_server.py)                                 *)

\* the keys of self.expressions (led_api.py lines 29-100)
Expressions == {"normal", "happy", "sad", "wink", "love", "closed", "off"}

\* a JSON value of a request body: a string, or an array of one string
JStr(v) == [t |-> "str", v |-> v]
JList(v) == [t |-> "list", v |-> v]

\* `value in self.expressions`: the lookup in a dict hashes the value, and a list
\* cannot be hashed (TypeError)
Contains(j) ==
    IF j.t = "list" THEN "TypeError"
    ELSE IF j.t = "str" /\ j.v \in Expressions THEN "in" ELSE "not_in"

NoThread == [exists |-> FALSE, alive |-> FALSE, exprs |-> <<>>, loop |-> FALSE,
             pc |-> "while", i |-> 1, displayed |-> 0, replaced |-> FALSE]

\* no server process yet
LedDown == [server |-> "none", class |-> "none", hw |-> FALSE,
            current_expression |-> "normal", shown |-> "nothing",
            stop_animation |-> FALSE, thread |-> NoThread]

NoRequest == [endpoint |-> "none", expression |-> JStr(""), exprs |-> <<>>, loop |-> FALSE]

HttpIdle == [handler |-> "idle", req |-> NoRequest, status |-> 0, body |-> None]

LedServers == {"led_api", "api_server"}

\* The module is loaded: the import of the luma libraries succeeds or not, and
\* with them initialize_device succeeds or not (led_api.py lines 11-27, 102-116,
\* 196; api_server.py lines 119-125, 206-221, 289-304, 352-385).  Without the
\* libraries api_server.py serves a MockLEDController.
LedServerStart ==
    /\ led.server = "none"
    /\ \E server \in LedServers, libs \in BOOLEAN, initOk \in BOOLEAN :
          /\ (~libs => initOk)
          /\ led' = [LedDown EXCEPT
                        !.server = server,
                        !.class = IF server = "api_server" /\ ~libs THEN "MockLEDController"
                                  ELSE "LEDController",
                        !.hw = libs /\ initOk]
    /\ UNCHANGED <<vars_pipeline, led_http, tof, tof_http>>

\* display_expression (led_api.py lines 118-140, api_server.py lines 223-243,
\* 362-367): [c, ret], the controller afterwards and the value returned.  draw:
\* the drawing on the device went through ("ok") or raised.
DisplayExpression(c, expression, draw) ==
    IF expression \notin Expressions THEN [c |-> c, ret |-> FALSE]
    ELSE IF c.hw
         THEN IF draw = "ok"
              THEN [c |-> [c EXCEPT !.current_expression = expression, !.shown = expression],
                    ret |-> TRUE]
              ELSE [c |-> [c EXCEPT !.current_expression = expression], ret |-> FALSE]
         ELSE [c |-> [c EXCEPT !.current_expression = expression, !.shown = expression],
               ret |-> TRUE]

DrawOutcomes(c) == IF c.hw THEN {"ok", "raised"} ELSE {"ok"}

\* the response of the set-expression routes for an expression value
\* (led_api.py lines 207-219, 224-236; api_server.py lines 470-482, 490-502)
SetExpressionResponse(c, expression, draw) ==
    LET found == Contains(expression) IN
    IF found = "TypeError"
    THEN \* the exception leaves the view function: 500, no JSON body
         [c |-> c, status |-> 500, body |-> None]
    ELSE IF found = "not_in"
    THEN [c |-> c, status |-> 400,
          body |-> Some([success |-> FALSE, error |-> "Unknown expression"])]
    ELSE LET d == DisplayExpression(c, expression.v, draw)
         IN  [c |-> d.c, status |-> 200,
              body |-> Some([success |-> d.ret, expression |-> expression.v])]

\* the bodies sent to POST /led/expression: a known expression, an unknown one,
\* an array, and a body without the key (the default is 'normal')
ExpressionBodies ==
    { [expression |-> JStr("happy")], [expression |-> JStr("sad")],
      [expression |-> JStr("invalid_expression")], [expression |-> JList("happy")],
      EmptyDict }

\* POST /led/expression (led_api.py lines 201-219, api_server.py lines 462-482)
LedSetExpression ==
    /\ led.server # "none"
    /\ led_http.handler = "idle"
    /\ \E data \in ExpressionBodies, draw \in DrawOutcomes(led) :
         \E expression \in {Get(data, "expression", JStr("normal"))} :
         \E r \in {SetExpressionResponse(led, expression, draw)} :
            /\ led' = r.c
            /\ led_http' = [handler |-> "idle",
                            req |-> [NoRequest EXCEPT !.endpoint = "/led/expression",
                                                      !.expression = expression],
                            status |-> r.status, body |-> r.body]
    /\ UNCHANGED <<vars_pipeline, tof, tof_http>>

\* the path segments sent to POST /led/expression/<expression>
ExpressionPaths == {"wink", "off", "invalid_expression"}

\* POST /led/expression/<expression> (led_api.py lines 221-236, api_server.py
\* lines 484-502)
LedSetExpressionPath ==
    /\ led.server # "none"
    /\ led_http.handler = "idle"
    /\ \E path \in ExpressionPaths, draw \in DrawOutcomes(led) :
         \E r \in {SetExpressionResponse(led, JStr(path), draw)} :
            /\ led' = r.c
            /\ led_http' = [handler |-> "idle",
                            req |-> [NoRequest EXCEPT !.endpoint = "/led/expression/<expression>",
                                                      !.expression = JStr(path)],
                            status |-> r.status, body |-> r.body]
    /\ UNCHANGED <<vars_pipeline, tof, tof_http>>

\* the animations asked of POST /led/animate
AnimationLists == { <<"happy", "sad">>, <<"wink">>, <<"happy", "bogus">>, <<>> }

\* threading.Thread(target=animate) started (led_api.py lines 176-177).
\* displayed: the expressions of the list the thread has passed to
\* display_expression so far (counted up to the length of the list); replaced:
\* the thread was started in place of a looping animation that was running.
NewThread(exprs, loop) ==
    [exists |-> TRUE, alive |-> TRUE, exprs |-> exprs, loop |-> loop, pc |-> "while", i |-> 1,
     displayed |-> 0, replaced |-> FALSE]

\* animation_thread.join() returns once the thread has ended (led_api.py lines
\* 174, 183)
JoinedMut(th) == TRUE
Joined(th) == ~th.alive

\* POST /led/animate up to the join of start_animation (led_api.py lines 253-278
\* and 158-177; api_server.py lines 523-548 and 258-276, 372-373)
LedAnimate ==
    /\ led.server # "none"
    /\ led_http.handler = "idle"
    /\ \E exprs \in AnimationLists, loop \in BOOLEAN :
        LET req == [NoRequest EXCEPT !.endpoint = "/led/animate", !.exprs = exprs, !.loop = loop]
            ok  == [handler |-> "idle", req |-> req, status |-> 200,
                    body |-> Some([success |-> TRUE, action |-> "start_animation"])]
        IN  IF \E k \in 1 .. Len(exprs) : exprs[k] \notin Expressions
            THEN /\ led_http' = [handler |-> "idle", req |-> req, status |-> 400,
                                 body |-> Some([success |-> FALSE, error |-> "Unknown expressions"])]
                 /\ led' = led
            ELSE IF led.class = "MockLEDController"
            THEN led_http' = ok /\ led' = led
            ELSE IF led.thread.exists /\ led.thread.alive
            THEN \* stop_animation = False, then True; join() waits for the thread
                 /\ led' = [led EXCEPT !.stop_animation = TRUE]
                 /\ led_http' = [handler |-> "join in start_animation", req |-> req,
                                 status |-> 0, body |-> None]
            ELSE /\ led' = [led EXCEPT !.stop_animation = FALSE, !.thread = NewThread(exprs, loop)]
                 /\ led_http' = ok
    /\ UNCHANGED <<vars_pipeline, tof, tof_http>>

\* join() returned in start_animation: the new thread is created and started
\* (stop_animation is not assigned again)
LedAnimateJoined ==
    /\ led_http.handler = "join in start_animation"
    /\ Joined(led.thread)
    /\ led' = [led EXCEPT !.thread = [NewThread(led_http.req.exprs, led_http.req.loop)
                                        EXCEPT !.replaced = led.thread.loop]]
    /\ led_http' = [handler |-> "idle", req |-> led_http.req, status |-> 200,
                    body |-> Some([success |-> TRUE, action |-> "start_animation"])]
    /\ UNCHANGED <<vars_pipeline, tof, tof_http>>

\* POST /led/stop up to the join of stop_current_animation (led_api.py lines
\* 280-288, 179-183; api_server.py lines 550-561, 278-281, 375-376)
LedStop ==
    /\ led.server # "none"
    /\ led_http.handler = "idle"
    /\ LET req == [NoRequest EXCEPT !.endpoint = "/led/stop"] IN
       IF led.class # "MockLEDController" /\ led.thread.exists /\ led.thread.alive
       THEN /\ led' = [led EXCEPT !.stop_animation = TRUE]
            /\ led_http' = [handler |-> "join in stop_current_animation", req |-> req,
                            status |-> 0, body |-> None]
       ELSE /\ led' = IF led.class = "MockLEDController" THEN led
                      ELSE [led EXCEPT !.stop_animation = TRUE]
            /\ led_http' = [handler |-> "idle", req |-> req, status |-> 200,
                            body |-> Some([success |-> TRUE, action |-> "stop_animation"])]
    /\ UNCHANGED <<vars_pipeline, tof, tof_http>>

\* join() returned in stop_current_animation
LedStopJoined ==
    /\ led_http.handler = "join in stop_current_animation"
    /\ Joined(led.thread)
    /\ led_http' = [handler |-> "idle", req |-> led_http.req, status |-> 200,
                    body |-> Some([success |-> TRUE, action |-> "stop_animation"])]
    /\ UNCHANGED <<vars_pipeline, led, tof, tof_http>>

\* one step of the thread running animate() (led_api.py lines 162-170): the test
\* of the while loop, or one turn of the for loop
LedAnimStep ==
    /\ led.thread.alive
    /\ LET th == led.thread IN
       IF th.pc = "while"
       THEN led' = IF led.stop_animation THEN [led EXCEPT !.thread.alive = FALSE]
                   ELSE [led EXCEPT !.thread.pc = "for", !.thread.i = 1]
       ELSE IF th.i > Len(th.exprs) \/ led.stop_animation
            THEN \* the for loop is over or left by break; `if not loop: break`
                 led' = IF th.loop THEN [led EXCEPT !.thread.pc = "while"]
                        ELSE [led EXCEPT !.thread.alive = FALSE]
            ELSE \E draw \in DrawOutcomes(led) :
                   led' = [DisplayExpression(led, th.exprs[th.i], draw).c EXCEPT
                              !.thread.i = th.i + 1,
                              !.thread.displayed = Min(th.displayed + 1, Len(th.exprs))]
    /\ UNCHANGED <<vars_pipeline, led_http, tof, tof_http>>

-----------------------------------------------------------------------------
(* The distance sensor and GET /tof/multiple (tof/tof_api.py, and the same *)
(* class and route in api_server.py)                                       *)

\* no server process yet
TofDown == [server |-> "none", class |-> "none", libs |-> FALSE, sensor |-> FALSE,
            is_initialized |-> FALSE, last_reading |-> None, last_error |-> None]

TofIdle == [endpoint |-> "none", count |-> [t |-> "absent", v |-> 0], limit |-> 0,
            status |-> 0, body |-> None]

TofServers == {"tof_api", "api_server"}

\* The module is loaded: the import of the sensor libraries succeeds or not, and
\* with them initialize_sensor succeeds or not (tof_api.py lines 11-42, 110;
\* api_server.py lines 25-50, 108-117, 307-350).  Without the libraries
\* api_server.py serves a MockTOFSensor, tof_api.py a TOFSensor in mock mode.
TofServerStart ==
    /\ tof.server = "none"
    /\ \E server \in TofServers, libs \in BOOLEAN, initOk \in BOOLEAN :
          /\ (~libs => ~initOk)
          /\ tof' = [TofDown EXCEPT
                        !.server = server,
                        !.class = IF server = "api_server" /\ ~libs THEN "MockTOFSensor"
                                  ELSE "TOFSensor",
                        !.libs = libs,
                        !.sensor = initOk,
                        !.is_initialized = initOk,
                        !.last_error = IF server = "api_server" /\ ~libs
                                       THEN Some("Hardware not available")
                                       ELSE IF libs /\ ~initOk THEN Some("init failed") ELSE None]
    /\ UNCHANGED <<vars_pipeline, led, led_http, tof_http>>

\* what the hardware does at one call of read_distance: initialize_sensor, if
\* it is called, succeeds or not; sensor.range answers mm or raises (mm is also
\* the value of random.randint where the reading is a mock one)
Distances == {120, 850}
ReadOk(mm) == [init |-> TRUE, raised |-> FALSE, mm |-> mm]
ReadRaises == [init |-> TRUE, raised |-> TRUE, mm |-> 120]
InitFails == [init |-> FALSE, raised |-> FALSE, mm |-> 120]

\* read_distance (tof_api.py lines 44-65; api_server.py lines 52-65, 314-317):
\* [t, ret], the sensor object afterwards and the value returned (None or mm).
\* Without a sensor object the reading is random.randint(100, 2000).
ReadDistance(t, o) ==
    IF t.class = "TOFSensor" /\ t.server = "tof_api" /\ ~t.is_initialized /\ t.libs /\ ~o.init
    THEN [t |-> [t EXCEPT !.last_error = Some("init failed")], ret |-> None]
    ELSE LET t1 == IF t.class = "TOFSensor" /\ t.server = "tof_api" /\ ~t.is_initialized /\ t.libs
                   THEN [t EXCEPT !.sensor = TRUE, !.is_initialized = TRUE]
                   ELSE t
         IN  IF t1.class = "TOFSensor" /\ t1.sensor
             THEN IF o.raised
                  THEN [t |-> [t1 EXCEPT !.last_error = Some("read failed")], ret |-> None]
                  ELSE [t |-> [t1 EXCEPT !.last_reading = Some(o.mm),
                                         !.last_error = IF t1.server = "tof_api" THEN None
                                                        ELSE t1.last_error],
                        ret |-> Some(o.mm)]
             ELSE [t |-> [t1 EXCEPT !.last_reading = Some(o.mm)], ret |-> Some(o.mm)]

\* the limits of the route (tof_api.py line 144, api_server.py line 453), and the
\* default of the query argument (line 140 / 449)
COUNT_MIN == 1
COUNT_MAX == 100
COUNT_DEFAULT == 10

\* count = max(1, min(count, 100))
ClampCount(count) == Max(COUNT_MIN, Min(count, COUNT_MAX))

\* request.args.get('count', 10, type=int): the default when the argument is
\* absent or is no integer
CountArg(a) == IF a.t = "int" THEN a.v ELSE COUNT_DEFAULT

\* what the hardware does during one request, read by read: every read answers
\* mm; the read with index k raises; every read raises; initialize_sensor fails
\* every time
ReadScripts ==
    { [i \in 1 .. COUNT_MAX |-> ReadOk(mm)] : mm \in Distances }
    \cup { [i \in 1 .. COUNT_MAX |-> IF i = k THEN ReadRaises ELSE ReadOk(120)] : k \in {1, 2} }
    \cup { [i \in 1 .. COUNT_MAX |-> ReadRaises], [i \in 1 .. COUNT_MAX |-> InitFails] }

\* the loop of read_multiple (tof_api.py lines 82-90; api_server.py lines 80-88,
\* 330-337) for the indices lo .. hi, in order: [t, readings]
RECURSIVE ReadLoop(_, _, _, _)
ReadLoop(t, lo, hi, script) ==
    IF lo > hi THEN [readings |-> <<>>, t |-> t]
    ELSE IF lo = hi
    THEN LET r == ReadDistance(t, script[lo])
         IN  [readings |-> IF r.ret # None
                           THEN <<[reading |-> lo, distance_mm |-> Val(r.ret),
                                   timestamp |-> lo - 1]>>
                           ELSE <<>>,
              t |-> r.t]
    ELSE LET mid   == (lo + hi) \div 2
             first == ReadLoop(t, lo, mid, script)
             rest  == ReadLoop(first.t, mid + 1, hi, script)
         IN  [readings |-> first.readings \o rest.readings, t |-> rest.t]

\* sum(distances) over the readings lo .. hi
RECURSIVE SumMm(_, _, _)
SumMm(rs, lo, hi) ==
    IF lo > hi THEN 0
    ELSE IF lo = hi THEN rs[lo].distance_mm
    ELSE SumMm(rs, lo, (lo + hi) \div 2) + SumMm(rs, (lo + hi) \div 2 + 1, hi)

\* lines 92-101: the statistics of the readings (avg in units of 1/FP)
Statistics(rs) ==
    IF rs # <<>>
    THEN [min |-> Some(CHOOSE m \in {r.distance_mm : r \in {rs[k] : k \in 1 .. Len(rs)}} :
                         \A k \in 1 .. Len(rs) : m <= rs[k].distance_mm),
          max |-> Some(CHOOSE m \in {r.distance_mm : r \in {rs[k] : k \in 1 .. Len(rs)}} :
                         \A k \in 1 .. Len(rs) : m >= rs[k].distance_mm),
          avg |-> Some((SumMm(rs, 1, Len(rs)) * FP) \div Len(rs)),
          count |-> Len(rs)]
    ELSE [min |-> None, max |-> None, avg |-> None, count |-> 0]

\* the values of the query argument count: absent, no integer, and integers
\* below, at and above the limits
CountArgs ==
    { [t |-> "absent", v |-> 0], [t |-> "text", v |-> 0] }
    \cup { [t |-> "int", v |-> c] : c \in {-3, 0, 1, 2, 5, COUNT_MAX, COUNT_MAX + 1, 1000} }

\* GET /tof/multiple (tof_api.py lines 137-149 and 77-107; api_server.py lines
\* 440-459 and 77-106, 328-348)
TofMultiple ==
    /\ tof.server # "none"
    /\ \E a \in CountArgs, script \in ReadScripts :
         \E count \in {ClampCount(CountArg(a))} :
         \E r \in {ReadLoop(tof, 1, count, script)} :
            /\ tof' = r.t
            /\ tof_http' = [endpoint |-> "/tof/multiple", count |-> a, limit |-> count,
                            status |-> 200,
                            body |-> Some([readings |-> r.readings,
                                           statistics |-> Statistics(r.readings),
                                           success |-> TRUE])]
    /\ UNCHANGED <<vars_pipeline, led, led_http>>

-----------------------------------------------------------------------------
(* POST /actions/proximity_reaction of api_server.py                       *)

\* what sensor.range answers at the request: values below, at and above each
\* threshold
ProximityDistances == {0, 99, 100, 299, 300, 799, 800, 2000}

\* lines 594-601: the expression for a distance
ProximityExpressionMut(distance) ==
    IF distance <= 100 THEN "love"
    ELSE IF distance <= 300 THEN "happy"
    ELSE IF distance <= 800 THEN "normal"
    ELSE "sad"
ProximityExpression(distance) ==
    IF distance < 100 THEN "love"
    ELSE IF distance < 300 THEN "happy"
    ELSE IF distance < 800 THEN "normal"
    ELSE "sad"

\* POST /actions/proximity_reaction (api_server.py lines 577-609).  tof_sensor
\* and led_controller are never None once the module is loaded (lines 351, 385),
\* so the 503 branch is not taken.
ProximityReaction ==
    /\ tof.server = "api_server"
    /\ led.server = "api_server"
    /\ led_http.handler = "idle"
    /\ \E o \in {ReadOk(mm) : mm \in ProximityDistances} \cup {ReadRaises},
          draw \in DrawOutcomes(led) :
         \E r \in {ReadDistance(tof, o)} :
            LET req == [NoRequest EXCEPT !.endpoint = "/actions/proximity_reaction"] IN
            /\ tof' = r.t
            /\ IF r.ret = None
               THEN /\ led' = led
                    /\ led_http' = [handler |-> "idle", req |-> req, status |-> 500,
                                    body |-> Some([success |-> FALSE,
                                                   error |-> "Failed to read distance"])]
               ELSE \E d \in {DisplayExpression(led, ProximityExpression(Val(r.ret)), draw)} :
                    /\ led' = d.c
                    /\ led_http' = [handler |-> "idle", req |-> req, status |-> 200,
                                    body |-> Some([success |-> d.ret,
                                                   distance_mm |-> Val(r.ret),
                                                   expression |-> ProximityExpression(Val(r.ret))])]
    /\ UNCHANGED <<vars_pipeline, tof_http>>

-----------------------------------------------------------------------------
(* camera/camera_stream.py: the WebSocket frame source.  websockets.serve   *)
(* runs one video_stream coroutine per connected client, all of them in the *)
(* one event loop of asyncio.run: a coroutine runs until its next await,    *)
(* and nothing else runs in between.  Time is in whole seconds and the      *)
(* server is started with --fps 1.                                          *)

\* nothing built yet
NoFrame == [sent |-> FALSE]

WsClients == {"A", "B"}

WS_FPS == 1

\* line 8: interval = 1.0 / max(args.fps, 1)
WsInterval == 1 \div Max(WS_FPS, 1)

\* seconds a capture takes: subprocess.run(cmd, capture_output=True, timeout=2)
\* blocks the calling thread until the camera program has ended (lines 27, 41)
CaptureDurations == {0, 1, 2}

\* no connection
WsOff == [pc |-> "off", seq |-> 0, next_t |-> 0, wake |-> 0, sent_at |-> None, late |-> 0]

WsDown == [now |-> 0, blocked_by |-> "none", clients |-> [c \in WsClients |-> WsOff]]

\* a handler that can run now: it was just created, it came back from an await
\* that was over at once, or its sleep is over
WsRunnable(w, c) ==
    \/ w.clients[c].pc \in {"new", "ready"}
    \/ w.clients[c].pc = "sleep" /\ w.clients[c].wake <= w.now

\* lines 63-79 from the end of the throttle sleep on: next_t += interval, the
\* header is built and the message is sent (await websocket.send), seq += 1.
\* due: the time at which the frame was to go out.
WsSendFrame(w, c, due) ==
    [w EXCEPT !.clients[c] = [@ EXCEPT !.pc = "ready",
                                       !.next_t = @ + WsInterval,
                                       !.seq = @ + 1,
                                       !.sent_at = Some(w.now),
                                       !.late = w.now - due]]

\* a client connects: websockets.serve creates the task of its handler
\* (lines 98-106)
WsConnect(c) ==
    /\ ws.clients[c].pc = "off"
    /\ ws' = [ws EXCEPT !.clients[c] = [WsOff EXCEPT !.pc = "new"]]
    /\ UNCHANGED <<vars_pipeline_but_ws, vars_api, frame, anim>>

\* The event loop runs the handler of client c from where it is up to its next
\* await: lines 6-9 if it is new, then one capture (lines 14-61), which blocks
\* the loop for its duration, then the throttle (lines 63-66) and, if no sleep
\* is due, the send (lines 67-79).
WsIterate(c) ==
    /\ ws.clients[c].pc \in {"new", "ready"}
    /\ \E dur \in CaptureDurations, captured \in BOOLEAN :
         /\ ws.now + dur <= MaxWsTime
         /\ LET next_t == IF ws.clients[c].pc = "new" THEN ws.now ELSE ws.clients[c].next_t
                w1 == [ws EXCEPT !.now = @ + dur,
                                 !.blocked_by = IF dur > 0 THEN c ELSE @,
                                 !.clients[c].next_t = next_t]
            IN  IF ~captured
                THEN \* await asyncio.sleep(0.1) / (0.01); continue
                     ws' = [w1 EXCEPT !.clients[c].pc = "ready"]
                ELSE IF w1.now < next_t
                THEN \* await asyncio.sleep(next_t - now)
                     ws' = [w1 EXCEPT !.clients[c].pc = "sleep", !.clients[c].wake = next_t]
                ELSE ws' = WsSendFrame(w1, c, w1.now)
    /\ UNCHANGED <<vars_pipeline_but_ws, vars_api, frame, anim>>

\* The event loop resumes the handler of client c after its throttle sleep
\* (line 66): lines 67-79.
WsWake(c) ==
    /\ ws.clients[c].pc = "sleep"
    /\ ws.clients[c].wake <= ws.now
    /\ ws' = WsSendFrame(ws, c, ws.clients[c].wake)
    /\ UNCHANGED <<vars_pipeline_but_ws, vars_api, frame, anim>>

\* No handler can run: the event loop waits for the earliest timer.
WsWait ==
    /\ \A c \in WsClients : ~WsRunnable(ws, c)
    /\ \E c \in WsClients :
         /\ ws.clients[c].pc = "sleep"
         /\ \A d \in WsClients : ws.clients[d].pc = "sleep" => ws.clients[c].wake <= ws.clients[d].wake
         /\ ws.clients[c].wake <= MaxWsTime
         /\ ws' = [ws EXCEPT !.now = ws.clients[c].wake, !.blocked_by = "none"]
    /\ UNCHANGED <<vars_pipeline_but_ws, vars_api, frame, anim>>

-----------------------------------------------------------------------------
(* The framing of camera_stream.py and its reading by tools/ws_test.py.  A  *)
(* byte string is a tuple of one-character strings; a header is a Python    *)
(* dict, here the tuple of its <<key, value>> pairs in insertion order, a   *)
(* value being [t |-> "int", v |-> n] or [t |-> "str", v |-> characters].   *)

LF == "\n"
QUOTE == "\""

Digits == <<"0", "1", "2", "3", "4", "5", "6", "7", "8", "9">>

JInt(n) == [t |-> "int", v |-> n]

\* str(n) of an integer, as json.dumps writes it
RECURSIVE DecStr(_)
DecStr(n) ==
    IF n < 0 THEN <<"-">> \o DecStr(0 - n)
    ELSE IF n < 10 THEN <<Digits[n + 1]>>
    ELSE DecStr(n \div 10) \o <<Digits[(n % 10) + 1]>>

\* json.dumps of a value: an integer in decimal, a string between quotes (the
\* strings of the header hold no character json.dumps escapes)
JsonValue(j) == IF j.t = "int" THEN DecStr(j.v) ELSE <<QUOTE>> \o j.v \o <<QUOTE>>

\* json.dumps of the members from the k-th on: "key": value, separated by ", "
RECURSIVE JsonMembers(_, _)
JsonMembers(d, k) ==
    IF k > Len(d) THEN <<>>
    ELSE <<QUOTE>> \o d[k][1] \o <<QUOTE, ":", " ">> \o JsonValue(d[k][2])
         \o (IF k < Len(d) THEN <<",", " ">> ELSE <<>>) \o JsonMembers(d, k + 1)

\* json.dumps(header).encode() (camera_stream.py line 78)
JsonDumps(d) == <<"{">> \o JsonMembers(d, 1) \o <<"}">>

\* lines 69-78: the header of a frame and the message sent for it
WsHeader(seq, ts_ns, w, h) ==
    << <<(<<"s", "e", "q">>), JInt(seq)>>,
       <<(<<"t", "s", "_", "n", "s">>), JInt(ts_ns)>>,
       <<(<<"w">>), JInt(w)>>,
       <<(<<"h">>), JInt(h)>>,
       <<(<<"f", "m", "t">>), JStr(<<"j", "p", "g">>)>> >>

WsMessage(header, jpg_data) == JsonDumps(header) \o <<LF>> \o jpg_data

\* the first index from i on at which s holds one of the characters, 0 if none
Find(s, i, chars) ==
    IF \E k \in i .. Len(s) : s[k] \in chars
    THEN CHOOSE k \in i .. Len(s) : s[k] \in chars /\ \A j \in i .. (k - 1) : s[j] \notin chars
    ELSE 0

\* the last index at which s holds the character, 0 if none
FindLast(s, ch) ==
    IF \E k \in 1 .. Len(s) : s[k] = ch
    THEN CHOOSE k \in 1 .. Len(s) : s[k] = ch /\ \A j \in (k + 1) .. Len(s) : s[j] # ch
    ELSE 0

\* message.split(b'\n', 1) (ws_test.py line 23), for a message that holds a newline
SplitAtNewlineMut(message) ==
    LET k == FindLast(message, LF)
    IN  <<SubSeq(message, 1, k - 1), SubSeq(message, k + 1, Len(message))>>
SplitAtNewline(message) ==
    LET k == Find(message, 1, {LF})
    IN  <<SubSeq(message, 1, k - 1), SubSeq(message, k + 1, Len(message))>>

\* int() of a run of digits
RECURSIVE DecVal(_)
DecVal(cs) ==
    IF cs = <<>> THEN 0
    ELSE DecVal(SubSeq(cs, 1, Len(cs) - 1)) * 10
         + (CHOOSE n \in 0 .. 9 : Digits[n + 1] = cs[Len(cs)])

IsDigits(cs) == cs # <<>> /\ \A k \in 1 .. Len(cs) : \E n \in 1 .. 10 : Digits[n] = cs[k]

JsonError == [ok |-> FALSE, d |-> <<>>]

\* json.loads of the members of an object from index i on (the opening quote of
\* a key), for the texts json.dumps writes; anything else is a JSONDecodeError
RECURSIVE ParseMembers(_, _, _)
ParseMembers(s, i, d) ==
    LET q == Find(s, i + 1, {QUOTE})             \* the closing quote of the key
        v == q + 3                                \* the value, after ': '
    IN  IF i > Len(s) \/ s[i] # QUOTE \/ q = 0 \/ v > Len(s)
           \/ s[q + 1] # ":" \/ s[q + 2] # " "
        THEN JsonError
        ELSE LET key == SubSeq(s, i + 1, q - 1)
                 e   == IF s[v] = QUOTE THEN Find(s, v + 1, {QUOTE})
                        ELSE Find(s, v, {",", "}"}) - 1      \* the last index of the value
                 text == IF s[v] = QUOTE THEN SubSeq(s, v + 1, e - 1)
                         ELSE IF s[v] = "-" THEN SubSeq(s, v + 1, e) ELSE SubSeq(s, v, e)
                 val == IF s[v] = QUOTE THEN JStr(text)
                        ELSE IF s[v] = "-" THEN JInt(0 - DecVal(text)) ELSE JInt(DecVal(text))
             IN  IF e < v \/ e + 1 > Len(s)
                    \/ (s[v] # QUOTE /\ ~IsDigits(text))
                    \/ (s[v] = QUOTE /\ \E k \in 1 .. Len(text) : text[k] = LF)
                 THEN JsonError
                 ELSE IF s[e + 1] = "}"
                 THEN IF \A k \in (e + 2) .. Len(s) : s[k] \in {" ", LF}    \* white space
                      THEN [ok |-> TRUE, d |-> Append(d, <<key, val>>)]
                      ELSE JsonError                         \* extra data
                 ELSE IF s[e + 1] = "," /\ e + 2 <= Len(s) /\ s[e + 2] = " "
                 THEN ParseMembers(s, e + 3, Append(d, <<key, val>>))
                 ELSE JsonError

\* json.loads(header_bytes.decode()) (ws_test.py line 26)
JsonLoads(s) ==
    IF Len(s) >= 2 /\ s[1] = "{" THEN ParseMembers(s, 2, <<>>) ELSE JsonError

\* ws_test.py lines 17-26: what the client makes of one message
WsClientRead(message) ==
    IF \A k \in 1 .. Len(message) : message[k] # LF
    THEN [kind |-> "skipped", meta |-> <<>>, image_bytes |-> <<>>]
    ELSE LET parts == SplitAtNewline(message)
             meta  == JsonLoads(parts[1])
         IN  IF meta.ok THEN [kind |-> "frame", meta |-> meta.d, image_bytes |-> parts[2]]
             ELSE [kind |-> "JSONDecodeError", meta |-> <<>>, image_bytes |-> <<>>]

\* the headers and the images of the frames sent: sequence numbers, time stamps
\* and sizes of one to four digits, a negative size (--w -1), and images that
\* hold no newline, one, or several
FrameSeqs == {0, 1, 7, 12, 305}
FrameStamps == {0, 5, 1234}
FrameSizes == {<<640, 480>>, <<320, 240>>, <<-1, 0>>}
FramePayloads == { <<"J">>, <<LF>>, <<"J", LF, "P">>, <<LF, "{", LF>>, <<"}", QUOTE, LF, LF>> }

\* one frame from camera_stream.py (lines 69-78) to ws_test.py (lines 17-26)
WsFrame ==
    \E seq \in FrameSeqs, ts_ns \in FrameStamps, size \in FrameSizes, jpg_data \in FramePayloads :
      \E header \in {WsHeader(seq, ts_ns, size[1], size[2])} :
      \E message \in {WsMessage(header, jpg_data)} :
        /\ frame' = [sent |-> TRUE, header |-> header, jpg_data |-> jpg_data,
                     message |-> message, got |-> WsClientRead(message)]
        /\ UNCHANGED <<vars_pipeline_but_ws, vars_api, ws, anim>>

-----------------------------------------------------------------------------
(* start_animation and stop_current_animation of the LED controller called  *)
(* by requests that are handled at the same time: app.run serves each       *)
(* request in a thread of its own, and the controller holds no lock.  A     *)
(* handler advances statement by statement (led_api.py lines 158-183,       *)
(* api_server.py lines 258-281).                                            *)

AnimHandlers == {1, 2}

HandlerIdle == [pc |-> "idle", call |-> "none", loop |-> FALSE, joining |-> 0, status |-> 0]

\* the controller after LEDController.__init__: animation_thread = None (0),
\* stop_animation = False, no thread created yet
AnimDown == [stop_animation |-> FALSE, animation_thread |-> 0, threads |-> <<>>,
             handler |-> [h \in AnimHandlers |-> HandlerIdle]]

\* threading.Thread.is_alive(): started and not yet ended
IsAlive(a, t) == t \in 1 .. Len(a.threads) /\ a.threads[t].state = "alive"

\* A request arrives and its handler runs the first statement of the method:
\* self.stop_animation = False (line 160) or self.stop_animation = True (line 181).
AnimRequest(h) ==
    /\ anim.handler[h].pc = "idle"
    /\ \E call \in {"start_animation", "stop_current_animation"}, loop \in BOOLEAN :
         /\ call = "stop_current_animation" => ~loop
         /\ call = "start_animation" => Len(anim.threads) < MaxThreads
         /\ anim' = [anim EXCEPT
                        !.stop_animation = (call = "stop_current_animation"),
                        !.handler[h] = [HandlerIdle EXCEPT !.pc = "check", !.call = call,
                                                           !.loop = loop]]
    /\ UNCHANGED <<vars_pipeline_but_ws, vars_api, ws, frame>>

\* `if self.animation_thread and self.animation_thread.is_alive():` (lines 172,
\* 182), and in start_animation the assignment that follows (line 173)
AnimCheck(h) ==
    /\ anim.handler[h].pc = "check"
    /\ LET hd == anim.handler[h] IN
       IF IsAlive(anim, anim.animation_thread)
       THEN anim' = [anim EXCEPT
                        !.stop_animation = IF hd.call = "start_animation" THEN TRUE ELSE @,
                        !.handler[h].pc = "join",
                        !.handler[h].joining = anim.animation_thread]
       ELSE IF hd.call = "start_animation"
            THEN anim' = [anim EXCEPT !.handler[h].pc = "create"]
            ELSE anim' = [anim EXCEPT !.handler[h] = [HandlerIdle EXCEPT !.status = 200]]
    /\ UNCHANGED <<vars_pipeline_but_ws, vars_api, ws, frame>>

\* self.animation_thread.join() returns (lines 174, 183)
AnimJoin(h) ==
    /\ anim.handler[h].pc = "join"
    /\ ~IsAlive(anim, anim.handler[h].joining)
    /\ IF anim.handler[h].call = "start_animation"
       THEN anim' = [anim EXCEPT !.handler[h].pc = "create"]
       ELSE anim' = [anim EXCEPT !.handler[h] = [HandlerIdle EXCEPT !.status = 200]]
    /\ UNCHANGED <<vars_pipeline_but_ws, vars_api, ws, frame>>

\* self.animation_thread = threading.Thread(target=animate) (line 176)
AnimCreate(h) ==
    /\ anim.handler[h].pc = "create"
    /\ anim' = [anim EXCEPT
                   !.threads = Append(@, [state |-> "created", loop |-> anim.handler[h].loop]),
                   !.animation_thread = Len(anim.threads) + 1,
                   !.handler[h].pc = "start"]
    /\ UNCHANGED <<vars_pipeline_but_ws, vars_api, ws, frame>>

\* self.animation_thread.start() (line 177): the thread the attribute refers to
\* now is started; a thread that was started before raises RuntimeError, which
\* leaves the view function (500)
AnimStart(h) ==
    /\ anim.handler[h].pc = "start"
    /\ LET t == anim.animation_thread IN
       IF anim.threads[t].state = "created"
       THEN anim' = [anim EXCEPT !.threads[t].state = "alive",
                                 !.handler[h] = [HandlerIdle EXCEPT !.status = 200]]
       ELSE anim' = [anim EXCEPT !.handler[h] = [HandlerIdle EXCEPT !.status = 500]]
    /\ UNCHANGED <<vars_pipeline_but_ws, vars_api, ws, frame>>

\* The thread running animate() ends (lines 162-170): it finds stop_animation
\* set, or it has run through its list and does not loop.
AnimThreadEnd(t) ==
    /\ IsAlive(anim, t)
    /\ anim.stop_animation \/ ~anim.threads[t].loop
    /\ anim' = [anim EXCEPT !.threads[t].state = "ended"]
    /\ UNCHANGED <<vars_pipeline_but_ws, vars_api, ws, frame>>

-----------------------------------------------------------------------------

InitClock == now = 0

InitViewPub ==
    /\ vp_seq = 0
    /\ vp_next_t = 0                \* next_t = time.time()
    /\ vp_sent = <<>>

InitBus ==
    /\ sub_tracker = <<>>
    /\ raw_seq = 0

InitTrackerState ==
    /\ have_roi = FALSE
    /\ mx_s = None
    /\ area_s = None
    /\ last_seen = 0                \* last_seen = time.time()
    /\ seq_out = 0
    /\ out = <<>>
    /\ cyc = NoCycle
    /\ observed_at = None
    /\ pub_pipe = <<>>

\* tracker_pi.py started without arguments and entered its loop
InitTracker ==
    /\ InitTrackerState
    /\ tracker_pc = "running"
    /\ args = ArgsDefault
    /\ tracker_res = TrackerSockets

InitTrack ==
    track = [running |-> TRUE, reads |-> 0, have_roi |-> FALSE, mx_s |-> None, area_s |-> None,
             last_seen |-> 0, drives |-> <<>>, cyc |-> NoLocalCycle]

InitStream ==
    stream = [pc |-> "start", open |-> {"cap", "ff.stdin"}, exit_code |-> 0, reads |-> 0, lost |-> FALSE, have_roi |-> FALSE, mx_s |-> None,
              area_s |-> None, last_seen |-> 0, drives |-> <<>>, cyc |-> NoLocalCycle]

InitRemote ==
    /\ viewer = ViewerOff
    /\ vo = VoOff

InitLaw == ctl = NoLaw

InitEma == ema = NoEma

InitLed == led = LedDown /\ led_http = HttpIdle

InitTof == tof = TofDown /\ tof_http = TofIdle

InitWs == ws = WsDown /\ frame = NoFrame

InitAnim == anim = AnimDown

Init == InitClock /\ InitViewPub /\ InitBus /\ InitTracker /\ InitTrack /\ InitStream
        /\ InitRemote /\ InitLaw /\ InitEma /\ InitLed /\ InitTof /\ InitWs /\ InitAnim

\* tracker_pi.py fed by a publisher on the topic it subscribes to
Next == RawPublish \/ TrackerCycle \/ Tick

Spec == Init /\ [][Next]_vars

\* the same, with a tracker that takes every message waiting in its socket and a
\* clock that keeps running; the publisher may stop at any time
SpecLive == Init /\ [][Next]_vars /\ WF_vars(TrackerCycle) /\ WF_vars(Tick)

\* the camera endpoint: view_pub.py and the sockets subscribed to it
NextCamera == ViewPubCycle \/ Tick

SpecCamera == Init /\ [][NextCamera]_vars

\* track.py
NextTrack == TrackCycle \/ Tick

SpecTrack == Init /\ [][NextTrack]_vars

\* track_and_stream_pi.py
NextStream == StreamStart \/ StreamCycle \/ Tick

SpecStream == Init /\ [][NextStream]_vars

\* tracker_pi.py publishing to viewer_sub.py
NextBus == RawPublish \/ TrackerCycle \/ ViewerStart \/ ViewerDeliver \/ ViewerCycle

SpecBus == Init /\ [][NextBus]_vars

\* tracker_pi.py fed by a publisher that also sends malformed messages
NextFault == RawPublish \/ RawPublishMalformed \/ TrackerCycle

SpecFault == Init /\ [][NextFault]_vars

\* the control law of tracker_pi.py, track.py and track_and_stream_pi.py
NextLaw == ApplyLaw

SpecLaw == Init /\ [][NextLaw]_vars

\* the smoothing alone, on chosen boxes, in binary64 arithmetic
NextEma == EmaUpdate

SpecEma == Init /\ [][NextEma]_vars

\* the LED endpoints of led_api.py and of api_server.py, one request at a time,
\* and the animation thread
NextLed ==
    \/ LedServerStart \/ LedSetExpression \/ LedSetExpressionPath
    \/ LedAnimate \/ LedAnimateJoined \/ LedStop \/ LedStopJoined \/ LedAnimStep

SpecLed == Init /\ [][NextLed]_vars

\* the same, with the animation thread scheduled again and again and a join
\* that returns once it can
SpecLedFair ==
    /\ Init /\ [][NextLed]_vars
    /\ WF_vars(LedAnimStep) /\ WF_vars(LedStopJoined) /\ WF_vars(LedAnimateJoined)

\* GET /tof/multiple of tof_api.py and of api_server.py
NextTof == TofServerStart \/ TofMultiple

SpecTof == Init /\ [][NextTof]_vars

\* tracker_pi.py from its command line on, fed by a publisher
InitConfig ==
    /\ InitClock /\ InitViewPub /\ InitBus /\ InitTrackerState /\ InitTrack /\ InitStream
    /\ InitRemote /\ InitLaw /\ InitEma /\ InitLed /\ InitTof /\ InitWs /\ InitAnim
    /\ tracker_pc = "start"
    /\ args = ArgsDefault
    /\ tracker_res = {}

NextConfig == TrackerStart \/ RawPublish \/ TrackerCycle

SpecConfig == InitConfig /\ [][NextConfig]_vars

\* view_pub.py publishing to video_only_sub.py
NextRemote == ViewPubCycle \/ VoStart \/ VoCycle \/ Tick

SpecRemote == Init /\ [][NextRemote]_vars

\* the combined server api_server.py: its sensor, its LED controller, the
\* set-expression route and the proximity reaction
NextActions == TofServerStart \/ LedServerStart \/ LedSetExpression \/ ProximityReaction

SpecActions == Init /\ [][NextActions]_vars

\* camera_stream.py serving its clients
NextWs == \E c \in WsClients : WsConnect(c) \/ WsIterate(c) \/ WsWake(c) \/ WsWait

SpecWs == Init /\ [][NextWs]_vars

\* the framing between camera_stream.py and ws_test.py
NextFrame == WsFrame

SpecFrame == Init /\ [][NextFrame]_vars

\* the LED controller under requests handled at the same time
NextAnim ==
    \/ \E h \in AnimHandlers :
         AnimRequest(h) \/ AnimCheck(h) \/ AnimJoin(h) \/ AnimCreate(h) \/ AnimStart(h)
    \/ \E t \in 1 .. MaxThreads : AnimThreadEnd(t)

SpecAnim == Init /\ [][NextAnim]_vars

-----------------------------------------------------------------------------
(* Properties                                                              *)

\* the messages of the last cycle of tracker_pi on one topic
OutOn(topic) == SelectSeq(out, LAMBDA m : Topic(m) = topic)

\* cmd of the drive.cmd message and arr of the tensor message of the last cycle
LastCmd == Header(OutOn(TOPIC_DRIVE_CMD)[1])
LastArr == Payload(OutOn(TOPIC_TENSOR_STATE)[1])

\* the last cycle of tracker_pi called tracker.update and got a box of area >= MIN_AREA
ObservedIn(c) == c.updated /\ c.upd.ok /\ BoxArea(c.upd.bbox) >= MIN_AREA

Spin == <<Q(SEARCH_SPIN), 0 - Q(SEARCH_SPIN)>>
Zero == <<0, 0>>

\* C1: every frame view_pub.py publishes is sent on a topic that tracker_pi.py's
\* subscription accepts, so it is placed in the tracker's receive socket (from
\* which the idle tracker takes it).
C1_PublishedFrameReachesTracker ==
    vp_sent # <<>> =>
        /\ Accepts(TrackerSubscribe, Topic(vp_sent[1]))
        /\ sub_tracker = vp_sent

\* C2: in tracker_pi.py, once more than 3 s have elapsed since the target was last
\* observed (a box of area >= MIN_AREA), every drive command published in a cycle
\* without a valid box is (0,0): the search spin is not published indefinitely.
C2_ZeroAfterStopTimeout ==
    (cyc.ran /\ observed_at # None /\ ~ObservedIn(cyc)
        /\ cyc.t_cmd - Val(observed_at) > STOP_TIMEOUT)
    => <<LastCmd.l, LastCmd.r>> = Zero

\* C3: in a cycle of track.py in which tracker.update fails or answers a box below
\* MIN_AREA, exactly one drive command is emitted: (0,0) when now - last_seen > 3 s,
\* and the search spin (+0.25, -0.25) otherwise.
C3_SingleSearchCommand ==
    (track.cyc.ran /\ track.cyc.updated /\ ~ObservedIn(track.cyc))
    => track.drives =
         << IF track.cyc.t_cmd - track.cyc.seen > STOP_TIMEOUT THEN Zero ELSE Spin >>

\* C4: every message tracker_pi.py publishes in a cycle, on each of its three
\* result topics, carries the sequence number of that cycle.
C4_SameSeqOnAllTopics ==
    cyc.ran =>
        \A i \in 1 .. Len(out) :
            /\ "seq" \in DOMAIN Header(out[i])
            /\ Header(out[i]).seq = cyc.seq

\* C5: the result messages of a cycle carry the same timestamp, the capture
\* timestamp (ts_ns) of the input frame of that cycle.
C5_CaptureTimestamp ==
    cyc.ran => \A i \in 1 .. Len(out) : Header(out[i]).ts_ns = cyc.frame.ts_ns

\* C6 as claimed: the payloads of a cycle are computed from the frame received in
\* that cycle, and (l, r) of drive.cmd equal elements 0 and 1 of the state tensor.
C6_DriveEqualsTensor ==
    cyc.ran =>
        /\ \A i \in 1 .. Len(OutOn(TOPIC_VIDEO_ANNOT)) :
               Payload(OutOn(TOPIC_VIDEO_ANNOT)[i]).of = cyc.frame
        /\ LastArr[1] = LastCmd.l
        /\ LastArr[2] = LastCmd.r

\* C6 as amended: the payloads of a cycle are computed from the frame received in
\* that cycle; elements 0 and 1 of the state tensor are the float32 roundings of
\* (l, r) of drive.cmd, and equal them exactly in the lost case.
C6_TensorIsFloat32OfDrive ==
    cyc.ran =>
        /\ \A i \in 1 .. Len(OutOn(TOPIC_VIDEO_ANNOT)) :
               Payload(OutOn(TOPIC_VIDEO_ANNOT)[i]).of = cyc.frame
        /\ Len(OutOn(TOPIC_DRIVE_CMD)) = 1
        /\ Len(OutOn(TOPIC_TENSOR_STATE)) = 1
        /\ LastArr[1] = RoundDiv(LastCmd.l, F32_STEP) * F32_STEP
        /\ LastArr[2] = RoundDiv(LastCmd.r, F32_STEP) * F32_STEP
        /\ ~ObservedIn(cyc) => (LastArr[1] = LastCmd.l /\ LastArr[2] = LastCmd.r)

\* a tracked cycle whose drive command (0.7, 0.7) is no float32 value
C6_Witness ==
    /\ cyc.ran /\ ObservedIn(cyc)
    /\ LastCmd.l = Q(FWD_MAX)
    /\ LastArr[1] # LastCmd.l

\* C7: when tracker.init on the initial region fails, no drive command (neither
\* drive.cmd nor the state tensor) is published for that frame.
C7_InitFailurePublishesNothing ==
    (cyc.ran /\ cyc.seq = 0 /\ cyc.init /\ ~cyc.init_ok)
    => /\ OutOn(TOPIC_DRIVE_CMD) = <<>>
       /\ OutOn(TOPIC_TENSOR_STATE) = <<>>

\* C8: in a cycle of tracker_pi.py in which tracker.update is called under a lock,
\* a box of area >= MIN_AREA keeps the core in Tracking (the lock is kept, the state
\* carries the box, the command is the control law's, no reinitialisation), and a
\* failure or a box below MIN_AREA puts it in Lost in that cycle (search or zero
\* command, lock dropped so that the next frame reinitialises), however many
\* successes preceded it.
C8_TrackingStateMachine ==
    (cyc.ran /\ cyc.updated) =>
        /\ cyc.had_roi => ~cyc.init
        /\ IF cyc.upd.ok /\ BoxArea(cyc.upd.bbox) >= MIN_AREA
           THEN /\ have_roi
                /\ "bbox" \in DOMAIN cyc.state
                /\ LastCmd.l = clamp(cyc.state.fwd + cyc.state.turn, 0 - FP, FP)
                /\ LastCmd.r = clamp(cyc.state.fwd - cyc.state.turn, 0 - FP, FP)
                /\ cyc.streak = cyc.before + 1
           ELSE /\ ~have_roi
                /\ DOMAIN cyc.state = {}
                /\ <<LastCmd.l, LastCmd.r>> \in {Spin, Zero}

\* a failed update after two successful ones under the same lock
C8_Witness ==
    /\ cyc.ran /\ cyc.had_roi /\ cyc.updated
    /\ cyc.before >= 2
    /\ ~cyc.upd.ok
    /\ ~have_roi

\* C9: in every cycle of tracker_pi.py the state carries a box iff the cycle ends
\* in Tracking, and the smoothed centroid and area take a new value only in a cycle
\* whose update answered a box of area >= MIN_AREA; in every other cycle they are
\* unchanged, or reset to absent by the reinitialisation.
C9_TrackStateInvariant ==
    [][ seq_out' = seq_out + 1 =>
          /\ ("bbox" \in DOMAIN cyc'.state) <=> have_roi'
          /\ \A i \in 1 .. Len(OutOn(TOPIC_VIDEO_ANNOT)') :
                 (Payload(OutOn(TOPIC_VIDEO_ANNOT)'[i]).overlay = "box") <=> have_roi'
          /\ ObservedIn(cyc') => (mx_s' # None /\ area_s' # None)
          /\ ~ObservedIn(cyc') =>
                 /\ mx_s' = mx_s \/ (cyc'.init /\ mx_s' = None)
                 /\ area_s' = area_s \/ (cyc'.init /\ area_s' = None)
      ]_vars

\* a cycle with a box below MIN_AREA after smoothed values exist
C9_Witness ==
    /\ cyc.ran /\ cyc.had_roi /\ cyc.upd.ok
    /\ BoxArea(cyc.upd.bbox) < MIN_AREA
    /\ mx_s # None /\ area_s # None
    /\ ~have_roi

\* C10: in track_and_stream_pi.py, while the target is lost and no lock was taken
\* since, every frame attempts a reinitialisation of the tracker.
C10_ReinitEveryFrameUntilLock ==
    (stream.cyc.ran /\ stream.cyc.was_lost) => stream.cyc.init

\* C11: a slow or disconnected subscriber of a result topic never stalls
\* tracker_pi.py.  Whenever a frame waits at the running tracker, its cycle can be
\* taken, whatever the state of the subscriber and of the pipe to it; the cycle
\* publishes the state tensor and the drive command once each, and the message of
\* the subscribed topic is queued for a connected subscriber if its pipe is below
\* the high-water mark and dropped otherwise.
C11_PublishNeverStalls ==
    /\ [](tracker_pc = "running" /\ sub_tracker # <<>> => ENABLED TrackerCycle)
    /\ [][ seq_out' = seq_out + 1 =>
             /\ Len(OutOn(TOPIC_TENSOR_STATE)') = 1
             /\ Len(OutOn(TOPIC_DRIVE_CMD)') = 1
             /\ Len(OutOn(TOPIC_VIDEO_ANNOT)') <= 1
             /\ UNCHANGED viewer
             /\ LET mine == SelectSeq(out', LAMBDA m : Topic(m) = viewer.topic)
                    all  == pub_pipe \o mine
                IN  pub_pipe' = IF viewer.pc = "running"
                                THEN SubSeq(all, 1, Min(PubHwm, Len(all)))
                                ELSE pub_pipe
       ]_vars

\* a cycle whose tensor message was dropped at the high-water mark of a subscriber
\* that reads nothing
C11_Witness ==
    /\ cyc.ran /\ tracker_pc = "running"
    /\ viewer.pc = "running" /\ viewer.topic = TOPIC_TENSOR_STATE
    /\ Len(pub_pipe) = PubHwm
    /\ Header(pub_pipe[PubHwm]).seq < cyc.seq

\* the command of the last cycle of tracker_pi, computed again from what the
\* cycle observed: the control law's on a valid box, the search or zero command
\* otherwise
ExpectedCmd ==
    IF ObservedIn(cyc)
    THEN << clamp(cyc.state.fwd + cyc.state.turn, 0 - FP, FP),
            clamp(cyc.state.fwd - cyc.state.turn, 0 - FP, FP) >>
    ELSE IF cyc.t_cmd - cyc.seen > STOP_TIMEOUT THEN Zero ELSE Spin

\* the float32 value nearest to v
NearestF32(v) == ((2 * v + F32_STEP) \div (2 * F32_STEP)) * F32_STEP

\* C12: when the encoding of the annotated frame fails in a cycle, only the video
\* message is skipped: the cycle publishes exactly the state tensor and the drive
\* command, with the sequence number of the cycle and the values computed from the
\* cycle's observation, which do not depend on the encoding.
C12_EncodeFailureSkipsVideoOnly ==
    (cyc.ran /\ OutOn(TOPIC_VIDEO_ANNOT) = <<>>) =>
        /\ Len(out) = 2
        /\ Topic(out[1]) = TOPIC_TENSOR_STATE
        /\ Topic(out[2]) = TOPIC_DRIVE_CMD
        /\ Header(out[1]).seq = cyc.seq
        /\ <<LastCmd.l, LastCmd.r>> = ExpectedCmd
        /\ LastArr[1] = NearestF32(ExpectedCmd[1])
        /\ LastArr[2] = NearestF32(ExpectedCmd[2])
        /\ LastArr[3] = NearestF32(Get(cyc.state, "err_x", 0))
        /\ LastArr[4] = NearestF32(Get(cyc.state, "fwd", 0))
        /\ LastArr[5] = NearestF32(Get(cyc.state, "turn", 0))

\* a cycle with a valid box whose annotated frame could not be encoded
C12_Witness ==
    /\ cyc.ran /\ ObservedIn(cyc)
    /\ OutOn(TOPIC_VIDEO_ANNOT) = <<>>
    /\ OutOn(TOPIC_DRIVE_CMD) # <<>>

\* C13: no exception propagates out of a processing cycle of tracker_pi.py: for
\* every received message (a header that is no JSON, a message that has not three
\* parts, a payload that does not decode) and every tracker outcome, the loop
\* proceeds to the next cycle instead of terminating.
C13_NoExceptionLeavesCycle == tracker_pc = "running"

\* C14: an acquisition failure is never fatal: in track_and_stream_pi.py a failed
\* read, the first one at startup included, is followed by another read attempt
\* and never ends the process (the process never exits with the status of a
\* failed read).
C14_AcquisitionFailureNotFatal ==
    ~(stream.pc = "exited" /\ stream.exit_code = 1)

\* C15: with the conflate-mode subscription of tracker_pi.py, what a receive
\* obtains after one or several messages were published is the most recently
\* published message, whole: the message waiting at the socket has the three
\* parts of a published message and the sequence number of the last one published.
C15_ConflateKeepsNewest ==
    sub_tracker # <<>> =>
        /\ Len(sub_tracker[1]) = 3
        /\ Header(sub_tracker[1]).seq = raw_seq - 1

\* C16: every reference consumer subscribes in conflate mode in every
\* configuration it can be started in, and so never holds more than one
\* undelivered frame: viewer_sub.py and video_only_sub.py.
C16_ConsumersConflate ==
    /\ viewer.pc = "running" =>
          (ViewerSocket(viewer).conflate /\ Len(viewer.slot) <= 1)
    /\ vo.pc = "running" =>
          (VoSocket(vo).conflate /\ Len(vo.queue) <= 1)

\* C17: every message tracker_pi.py and view_pub.py put on the bus has exactly
\* three parts in the order (topic, JSON header, payload), and every message a
\* subscriber is about to consume from its socket has exactly three parts.
C17_ThreePartMessages ==
    /\ \A i \in 1 .. Len(out) :
          /\ Len(out[i]) = 3
          /\ Topic(out[i]) \in {TOPIC_VIDEO_ANNOT, TOPIC_TENSOR_STATE, TOPIC_DRIVE_CMD}
          /\ IsJson(Header(out[i]))
    /\ \A i \in 1 .. Len(vp_sent) :
          /\ Len(vp_sent[i]) = 3
          /\ Topic(vp_sent[i]) = ViewPubTopic
          /\ IsJson(Header(vp_sent[i]))
    /\ \A i \in 1 .. Len(sub_tracker) : Len(sub_tracker[i]) = 3
    /\ \A i \in 1 .. Len(viewer.slot) : Len(viewer.slot[i]) = 3
    /\ \A i \in 1 .. Len(vo.queue) : Len(vo.queue[i]) = 3

\* C18: every processed cycle of tracker_pi.py, Tracking or Lost, publishes one
\* state tensor of exactly five float32 values in the order [left, right, error_x,
\* forward, turn], with dtype and shape in its header; in a Lost cycle the first
\* two values are the search or the zero command and the other three are 0.
C18_StateTensorLayout ==
    cyc.ran =>
        /\ Len(OutOn(TOPIC_TENSOR_STATE)) = 1
        /\ LET hdr == Header(OutOn(TOPIC_TENSOR_STATE)[1])
               arr == Payload(OutOn(TOPIC_TENSOR_STATE)[1])
           IN  /\ Len(arr) = 5
               /\ hdr.kind = "tensor"
               /\ hdr.dtype = "float32"
               /\ hdr.shape = <<5>>
               /\ \A i \in 1 .. 5 : arr[i] = NearestF32(arr[i])
               /\ IF ObservedIn(cyc)
                  THEN arr = << NearestF32(ExpectedCmd[1]), NearestF32(ExpectedCmd[2]),
                                NearestF32(cyc.state.err_x), NearestF32(cyc.state.fwd),
                                NearestF32(cyc.state.turn) >>
                  ELSE /\ <<arr[1], arr[2]>> \in {Spin, Zero}
                       /\ <<arr[1], arr[2]>> = ExpectedCmd
                       /\ <<arr[3], arr[4], arr[5]>> = <<0, 0, 0>>

\* a Lost cycle, after a tracked one, whose tensor carries the search command
C18_Witness ==
    /\ cyc.ran /\ cyc.had_roi /\ ~ObservedIn(cyc)
    /\ cyc.before >= 1
    /\ LastArr = <<Spin[1], Spin[2], 0, 0, 0>>

\* C19: in every drive command, left and right lie in [-1, 1]; in the tracked
\* case left = clamp(forward + turn, -1, 1) and right = clamp(forward - turn, -1, 1)
\* with turn = clamp(-Kp_turn * error_x, -1, 1), for every smoothed centroid and
\* smoothed area.
C19_DriveCommandBounded ==
    ctl.mode # "none" =>
        /\ 0 - FP <= ctl.l /\ ctl.l <= FP
        /\ 0 - FP <= ctl.r /\ ctl.r <= FP
        /\ ctl.mode = "tracked" =>
              /\ ctl.turn = clamp(0 - RoundDiv(Kp_turn[1] * ctl.err_x, Kp_turn[2]), 0 - FP, FP)
              /\ ctl.l = clamp(ctl.fwd + ctl.turn, 0 - FP, FP)
              /\ ctl.r = clamp(ctl.fwd - ctl.turn, 0 - FP, FP)

\* a small target at the left edge: forward + turn exceeds 1 and left saturates
C19_Witness ==
    /\ ctl.mode = "tracked"
    /\ ctl.fwd + ctl.turn > FP
    /\ ctl.l = FP

\* C20: the forward component is 0 whenever the smoothed area is >= TARGET_AREA,
\* and otherwise equals (TARGET_AREA - smoothed_area) / TARGET_AREA saturated to
\* [0.15, 0.7]: below TARGET_AREA it is at least 0.15 and at most 0.7.
C20_ForwardBand ==
    ctl.mode = "tracked" =>
        IF ctl.area >= TARGET_AREA * FP
        THEN ctl.fwd = 0
        ELSE LET ratio == RoundDiv(TARGET_AREA * FP - ctl.area, TARGET_AREA)
             IN  /\ ctl.fwd = (IF ratio < Q(FWD_MIN) THEN Q(FWD_MIN)
                               ELSE IF ratio > Q(FWD_MAX) THEN Q(FWD_MAX) ELSE ratio)
                 /\ Q(FWD_MIN) <= ctl.fwd
                 /\ ctl.fwd <= Q(FWD_MAX)

\* an area just below TARGET_AREA: the ratio is below the band and forward is 0.15
C20_Witness ==
    /\ ctl.mode = "tracked"
    /\ ctl.area < TARGET_AREA * FP
    /\ RoundDiv(TARGET_AREA * FP - ctl.area, TARGET_AREA) < Q(FWD_MIN)
    /\ ctl.fwd = Q(FWD_MIN)

\* v lies between a and b, inclusive
F64Between(v, a, b) ==
    \/ F64Leq(a, v) /\ F64Leq(v, b)
    \/ F64Leq(b, v) /\ F64Leq(v, a)

\* C21: in every update with a valid box (area >= MIN_AREA) that finds previous
\* smoothed values, the new smoothed centroid lies between the previous smoothed
\* centroid and the observed one (inclusive), and the same for the area.
C21_SmoothedBetweenPreviousAndObserved ==
    (ema.n > 0 /\ ema.mx_prev # None /\ ema.area_prev # None) =>
        /\ F64Between(Val(ema.mx_s), Val(ema.mx_prev), Val(ema.mx))
        /\ F64Between(Val(ema.area_s), Val(ema.area_prev), Val(ema.area))

\* C22: a cycle of tracker_pi.py that (re)initialises the tracker leaves the
\* smoothed centroid and area absent unless it observes the target, and then they
\* are exactly the observed centroid and area, whatever they were before the loss;
\* the control law is evaluated (the state carries err_x, fwd, turn) only in a
\* cycle that ends with both smoothed values present, and on those values.
C22_ReinitForgetsSmoothedValues ==
    [][ seq_out' = seq_out + 1 =>
          /\ cyc'.init =>
                IF ObservedIn(cyc')
                THEN /\ mx_s' = Some(Centroid(cyc'.upd.bbox))
                     /\ area_s' = Some(BoxArea(cyc'.upd.bbox) * FP)
                ELSE mx_s' = None /\ area_s' = None
          /\ "err_x" \in DOMAIN cyc'.state =>
                /\ mx_s' # None /\ area_s' # None
                /\ cyc'.state.err_x = ErrX(Val(mx_s'), cyc'.frame.w)
                /\ cyc'.state.area = Val(area_s')
          /\ "err_x" \notin DOMAIN cyc'.state => <<LastCmd'.l, LastCmd'.r>> \in {Spin, Zero}
      ]_vars

\* a reinitialising cycle observes the large box on the right, after two earlier
\* cycles in which the target could be tracked and lost
C22_Witness ==
    /\ cyc.ran /\ cyc.init /\ cyc.init_ok
    /\ cyc.seq >= 2
    /\ cyc.upd.ok /\ cyc.upd.bbox = <<200, 60, 120, 110>>
    /\ mx_s = Some(260 * FP)
    /\ area_s = Some(13200 * FP)

\* C23: whenever a cycle of tracker_pi.py ends in Tracking with the smoothed
\* centroid at the frame half-width cx and the smoothed area below TARGET_AREA, it
\* has error_x = 0, turn = 0, forward > 0 and publishes left = right = forward; in
\* particular the cycle that first observes the box (140,100,40,40) in a 320x240
\* frame ends in Tracking and publishes left = right = forward > 0.
C23_CentredTargetDrivesStraight ==
    /\ (/\ cyc.ran /\ "err_x" \in DOMAIN cyc.state
        /\ mx_s = Some((cyc.frame.w * FP) \div 2)
        /\ Val(area_s) < TARGET_AREA * FP)
       => /\ cyc.state.err_x = 0
          /\ cyc.state.turn = 0
          /\ cyc.state.fwd > 0
          /\ LastCmd.l = cyc.state.fwd
          /\ LastCmd.r = cyc.state.fwd
    /\ (/\ cyc.ran /\ cyc.init /\ cyc.upd.ok
        /\ cyc.frame.w = 320 /\ cyc.frame.h = 240
        /\ cyc.upd.bbox = <<140, 100, 40, 40>>)
       => /\ have_roi
          /\ "bbox" \in DOMAIN cyc.state
          /\ cyc.state.area = 1600 * FP
          /\ mx_s = Some(160 * FP)
          /\ LastCmd.l = LastCmd.r
          /\ LastCmd.l = cyc.state.fwd
          /\ LastCmd.l > 0

\* the first observed box is (140,100,40,40) in a 320x240 frame, and the drive
\* command of that cycle is published
C23_Witness ==
    /\ cyc.ran /\ cyc.init /\ cyc.init_ok /\ cyc.upd.ok
    /\ cyc.frame.w = 320 /\ cyc.frame.h = 240
    /\ cyc.upd.bbox = <<140, 100, 40, 40>>
    /\ mx_s = Some(160 * FP)
    /\ OutOn(TOPIC_DRIVE_CMD) # <<>>
    /\ LastCmd.l = Q(FWD_MAX)

\* C24: when tracker_pi.py is started with an invalid tracker kind or a malformed
\* region of interest (width or height zero or negative, or a box not inside the
\* frame), it processes no frame and publishes no message: no cycle runs and
\* nothing is sent, so no search command tells of the error later.
C24_ConfigurationErrorFatalAtStartup ==
    (/\ tracker_pc # "start"
     /\ \/ args.kind \notin KindChoices
        \/ args.roi # None /\ ~RoiInFrame(Val(args.roi), FRAME_W, FRAME_H))
    => /\ ~cyc.ran
       /\ seq_out = 0
       /\ out = <<>>

\* C25: when a process of the pipeline has left its main loop and returned
\* (tracker_pi.py, viewer_sub.py and video_only_sub.py on ESC, track_and_stream_pi.py
\* on a closed encoder pipe), none of the sockets, pipes and capture devices it
\* opened is open any more.
C25_EverythingClosedAtReturn ==
    /\ tracker_pc = "exited" => tracker_res = {}
    /\ viewer.pc = "exited" => viewer.open = {}
    /\ vo.pc = "exited" => vo.open = {}
    /\ (stream.pc = "exited" /\ stream.exit_code = 0) => stream.open = {}

\* C26: the frames view_pub.py publishes carry the sequence numbers 0, 1, 2, ...:
\* the first one 0, each next one exactly 1 more than the one before; an iteration
\* in which acquisition or encoding fails publishes nothing and leaves the
\* sequence number as it was.
C26_SequenceNumbersGapless ==
    /\ [](IF vp_sent = <<>> THEN vp_seq = 0
          ELSE Header(vp_sent[1]).seq = vp_seq - 1)
    /\ [][ /\ vp_sent' # vp_sent =>
                /\ Header(vp_sent'[1]).seq = vp_seq
                /\ vp_sent # <<>> => Header(vp_sent'[1]).seq = Header(vp_sent[1]).seq + 1
                /\ vp_seq' = vp_seq + 1
           /\ vp_sent' = vp_sent => vp_seq' = vp_seq
         ]_vars

\* two frames were published, and one iteration more than that passed the
\* throttle: its encoding failed
C26_Witness ==
    /\ vp_seq = 2
    /\ vp_sent # <<>> /\ Header(vp_sent[1]).seq = 1
    /\ vp_next_t >= 3 * VpInterval

\* C27: any two frames view_pub.py publishes one after the other are at least one
\* interval (1/fps) apart, whatever the iterations before took.
C27_NeverFasterThanCadence ==
    [][ (vp_sent # <<>> /\ vp_sent' # vp_sent) =>
            Header(vp_sent'[1]).ts_ns - Header(vp_sent[1]).ts_ns >= VpInterval ]_vars

\* C28: a transport failure towards a consumer does not end the processing loop:
\* an iteration of track_and_stream_pi.py that has processed its frame is followed
\* by the loop going on, also when its write to the encoder pipe failed, and
\* tracker_pi.py does not leave its loop when its subscriber is gone.
C28_TransportFailureKeepsLoop ==
    [][ /\ (stream.pc = "loop" /\ stream'.reads = stream.reads + 1) => stream'.pc = "loop"
        /\ (tracker_pc = "running" /\ viewer.pc # "running" /\ seq_out' = seq_out + 1)
              => tracker_pc' = "running" ]_vars

\* C29: a request to set an LED expression that is not one of the known
\* expressions, on the JSON route or on the path route, is answered with status
\* 400 and success = false, and the controller (current expression, display,
\* animation) is after the request what it was before.
C29_UnknownExpressionRejected ==
    [][ (/\ led_http' # led_http
         /\ led_http'.req.endpoint \in {"/led/expression", "/led/expression/<expression>"}
         /\ ~(led_http'.req.expression.t = "str" /\ led_http'.req.expression.v \in Expressions))
        => /\ led_http'.status = 400
           /\ led_http'.body # None
           /\ Val(led_http'.body).success = FALSE
           /\ led' = led ]_vars

\* C30: GET /tof/multiple with requested count c answers exactly
\* min(max(c, 1), 100) readings, each with distance_mm, timestamp and the reading
\* index, and statistics.count is the number of readings in the answer.
C30_MultipleReturnsClampedCount ==
    (tof_http.endpoint = "/tof/multiple" /\ tof_http.count.t = "int") =>
        LET c  == tof_http.count.v
            rs == Val(tof_http.body).readings
        IN  /\ tof_http.status = 200
            /\ Len(rs) = (IF c < 1 THEN 1 ELSE IF c > 100 THEN 100 ELSE c)
            /\ Len(rs) <= 100
            /\ \A k \in 1 .. Len(rs) : {"distance_mm", "timestamp", "reading"} \subseteq DOMAIN rs[k]
            /\ Val(tof_http.body).statistics.count = Len(rs)


\* C31: POST /actions/proximity_reaction answers with the distance it read and
\* with the expression of that distance by the fixed thresholds (below 100 love,
\* below 300 happy, below 800 normal, else sad), and when it answers success the
\* controller's current expression is the expression it reports.
C31_ProximityThresholds ==
    [][ (led_http'.req.endpoint = "/actions/proximity_reaction" /\ led_http' # led_http
         /\ led_http'.status = 200) =>
           LET b == Val(led_http'.body)
               d == b.distance_mm
           IN  /\ tof'.last_reading = Some(d)
               /\ d < 100 => b.expression = "love"
               /\ (100 <= d /\ d < 300) => b.expression = "happy"
               /\ (300 <= d /\ d < 800) => b.expression = "normal"
               /\ d >= 800 => b.expression = "sad"
               /\ b.success => led'.current_expression = b.expression ]_vars

C31_Witness ==
    /\ led_http.req.endpoint = "/actions/proximity_reaction"
    /\ led_http.status = 200
    /\ Val(led_http.body).success
    /\ Val(led_http.body).distance_mm = 100
    /\ Val(led_http.body).expression = "happy"
    /\ led.current_expression = "happy"


\* C32: once POST /led/stop has returned no animation thread is alive, and as long
\* as no other request arrives nothing changes the expression of the controller
\* or of the display; and a stop that waits for the thread does return, whatever
\* the list of the animation and whether it loops or not.
C32_StopEndsAnimation ==
    /\ []((led_http.req.endpoint = "/led/stop" /\ led_http.handler = "idle")
            => ~(led.thread.exists /\ led.thread.alive))
    /\ [][ (led_http.req.endpoint = "/led/stop" /\ led_http.handler = "idle"
            /\ led_http' = led_http)
           => (led'.shown = led.shown /\ led'.current_expression = led.current_expression) ]_vars
    /\ ((led_http.handler = "join in stop_current_animation")
          ~> (led_http.req.endpoint = "/led/stop" /\ led_http.handler = "idle"
              /\ led_http.status = 200))

C32_Witness ==
    /\ led_http.req.endpoint = "/led/stop"
    /\ led_http.handler = "idle"
    /\ led_http.status = 200
    /\ led.thread.exists
    /\ led.thread.loop
    /\ led.thread.exprs = <<>>
    /\ ~led.thread.alive


\* C33: the clients of camera_stream.py are isolated from each other: a frame of
\* one client goes out at the time it is due, whatever the handlers of the other
\* clients are doing (no capture made for another client delays it).
C33_ClientsIsolated ==
    \A c \in WsClients : ws.clients[c].late = 0


\* C34: every message camera_stream.py builds (JSON header, newline, image) is
\* split by ws_test.py at the first newline into exactly the header and the image
\* it was built from, also when the image holds newline bytes.
C34_FramingRoundTrip ==
    frame.sent =>
        /\ frame.got.kind = "frame"
        /\ frame.got.meta = frame.header
        /\ frame.got.image_bytes = frame.jpg_data

C34_Witness ==
    /\ frame.sent
    /\ frame.jpg_data = <<LF, "{", LF>>
    /\ frame.got.kind = "frame"
    /\ frame.got.image_bytes = <<LF, "{", LF>>
    /\ frame.header[1][2].v = 305
    /\ frame.header[3][2].v = -1


\* C35: an animation started by POST /led/animate while a looping animation was
\* running displays each of its expressions at least once: as long as no other
\* request has arrived, its thread does not end before it has passed every
\* expression of its list to display_expression.
C35_NewAnimationRuns ==
    (/\ led_http.req.endpoint = "/led/animate"
     /\ led_http.handler = "idle"
     /\ led_http.status = 200
     /\ led.class = "LEDController"
     /\ led.thread.replaced
     /\ ~led.thread.alive)
    => led.thread.displayed >= Len(led_http.req.exprs)


\* C36: at every moment at most one animation thread is alive, and every
\* animation thread that is alive is the one the controller refers to, whatever
\* the interleaving of the requests that start and stop animations.
C36_OneAnimationThread ==
    \A t, u \in 1 .. Len(anim.threads) :
        (anim.threads[t].state = "alive" /\ anim.threads[u].state = "alive")
            => (t = u /\ anim.animation_thread = t)


\* C37: a call of display_expression that returns False leaves current_expression
\* as it was: a set-expression request answered with success = false does not
\* change the current expression of the controller.
C37_FailedDisplayKeepsExpression ==
    [][ (/\ led_http' # led_http
         /\ led_http'.req.endpoint \in {"/led/expression", "/led/expression/<expression>"}
         /\ led_http'.status \in {200, 400}
         /\ ~Val(led_http'.body).success)
        => led'.current_expression = led.current_expression ]_vars


\* C38: once the target has been observed, last_seen of tracker_pi.py changes only
\* in a cycle that observes it (update succeeds with a box of area >= MIN_AREA):
\* a cycle that ends in Lost, and the cycle that initialises the tracker again
\* without observing the target, leave last_seen as it was.
C38_LastSeenOnlyWhenObserved ==
    [][ (seq_out' = seq_out + 1 /\ observed_at # None /\ ~ObservedIn(cyc'))
        => last_seen' = last_seen ]_vars

\* C39: when tracker_pi.py has published a drive command other than (0,0) and no
\* frame has reached it for more than 3 s since, it eventually publishes a (0,0)
\* drive command.
C39_ZeroWhenFramesStop ==
    (cyc.ran /\ <<LastCmd.l, LastCmd.r>> # Zero /\ sub_tracker = <<>>
        /\ now - cyc.t_cmd > STOP_TIMEOUT)
    ~> (cyc.ran /\ <<LastCmd.l, LastCmd.r>> = Zero)

\* C40: on the annotated-video topic and on the tensor topic of tracker_pi.py the
\* sequence numbers start at 0 and go up by exactly 1 from one message to the
\* next: a message of a cycle is number 0 or follows the message of the cycle
\* before on its topic, whose number is one less.
C40_GapFreePerTopic ==
    [][ seq_out' = seq_out + 1 =>
          \A topic \in {TOPIC_VIDEO_ANNOT, TOPIC_TENSOR_STATE} :
             LET before == SelectSeq(out, LAMBDA m : Topic(m) = topic)
                 after  == SelectSeq(out', LAMBDA m : Topic(m) = topic)
             IN  after # <<>> =>
                   /\ Len(after) = 1
                   /\ \/ Header(after[1]).seq = 0
                      \/ /\ before # <<>>
                         /\ Header(after[1]).seq = Header(before[1]).seq + 1 ]_vars
=============================================================================
